---- MODULE Spec2Model ----
(***************************************************************************)
(* Model of the dltoth/ssdp library: the UPnPBuffer header parser and the  *)
(* SSDP server loop (doSSDP / doChannel / readChannel and the post         *)
(* handlers that emit the search responses).                               *)
(*                                                                         *)
(* A C string is a TLA+ string holding the bytes before the terminating    *)
(* NUL.  A char pointer into a string is a 1-based index; the index        *)
(* Len(s)+1 designates the terminating NUL and the index 0 is NULL.        *)
(***************************************************************************)
EXTENDS Integers, Sequences, FiniteSets, TLC

\* ------------------------------------------------------------------------
\* Bounds of the model (not program constants)
\* ------------------------------------------------------------------------
MaxDevices == 2
MaxServices == 2
PadLen == 90
MaxArrivals == 2

\* ------------------------------------------------------------------------
\* Program constants
\* ------------------------------------------------------------------------
TXN_BUFFER_SIZE == 1536
ST_HEADER_SIZE == 100
ST_LSC_HEADER_SIZE == 20
UUID_SIZE == 37
LOC_BUFF_SIZE == 128
SSDP_BUFFER_SIZE == 1000
NAME_SIZE == 32
DESC_BUFFER_SIZE == 200
SEND_DELAY == 500
POLL_DELAY == 100
SSDP_OK == 0
SSDP_ERR_UDP == 1
SSDP_ERR_SEND == 2
SSDP_ERR_ST == 3

CRLF == "\r\n"
END_OF_LINE == "\r\n"
M_SEARCH_HEADER == "M-SEARCH"
RESPONSE_HEADER == "HTTP/1.1"
DESC_LSC_HEADER == "DESC.LEELANAUSOFTWARE.COM"
ST_LSC_HEADER == "ST.LEELANAUSOFTWARE.COM"
ST_HEADER == "ST"
USN_HEADER == "USN"
ST_UPNP_ROOTDEVICE == "upnp:rootdevice"
ST_UUID == "uuid:"
ST_TYPE == "urn:"
SSDP_ALL == "ssdp:all"

\* ------------------------------------------------------------------------
\* C string primitives
\* ------------------------------------------------------------------------
Min(a, b) == IF a < b THEN a ELSE b

\* the char at index i; "" stands for the terminating NUL
CharAt(s, i) == IF i >= 1 /\ i <= Len(s) THEN SubSeq(s, i, i) ELSE ""

\* the string a pointer to index i designates
From(s, i) == SubSeq(s, i, Len(s))

\* the first n chars of s (all of s when it is shorter)
Take(s, n) == SubSeq(s, 1, Min(n, Len(s)))

\* the first index in i..last at which needle stands in s, 0 when there is
\* none; the text is searched one stretch of characters after the other
RECURSIVE strstrFrom(_, _, _, _)
strstrFrom(s, i, needle, last) ==
  IF i > last THEN 0
  ELSE LET stop == Min(i + 47, last)
           hits == {j \in i..stop : SubSeq(s, j, j + Len(needle) - 1) = needle}
       IN  IF hits = {} THEN strstrFrom(s, stop + 1, needle, last)
           ELSE CHOOSE j \in hits : \A k \in hits : j <= k

\* strstr(s + i - 1, needle) as an index into s, 0 for NULL
strstr(s, i, needle) == strstrFrom(s, i, needle, Len(s) - Len(needle) + 1)

\* strncmp(a, b, n) == 0
strncmpEq(a, b, n) == Take(a, n) = Take(b, n)

\* strlcpy(dst, src, size): the new content of dst; dst is untouched when size = 0
strlcpy(dst, src, size) == IF size <= 0 THEN dst ELSE Take(src, size - 1)

\* strncpy(dst, src, n) followed by a read of dst as a C string of at most n bytes
strncpy(src, n) == Take(src, n)

\* while( *p == ' ' ) p++
RECURSIVE SkipSpaces(_, _)
SkipSpaces(s, i) == IF CharAt(s, i) = " " THEN SkipSpaces(s, i + 1) ELSE i

\* while( *p == ' ' ) p--
RECURSIVE BackSpaces(_, _)
BackSpaces(s, i) == IF CharAt(s, i) = " " THEN BackSpaces(s, i - 1) ELSE i

Digit(n) == SubSeq("0123456789", n + 1, n + 1)

\* what read(buffer, size) returns for a datagram: the number of bytes it
\* has stored
available(data, size) == Min(Len(data), size)

\* printf %d of a natural number
RECURSIVE IntStr(_)
IntStr(n) == IF n < 10 THEN Digit(n) ELSE IntStr(n \div 10) \o Digit(n % 10)

\* ------------------------------------------------------------------------
\* UPnPBuffer
\* ------------------------------------------------------------------------

\* the lines loop of UPnPBuffer::maxLen, from line start i with the maximum so far
RECURSIVE maxLenLoop(_, _, _, _)
maxLenLoop(s, lineStart, lineLen, result) ==
  IF lineLen > 0
  THEN LET r1   == IF lineLen > result THEN lineLen ELSE result
           ls   == lineStart + lineLen + 2
           le   == strstr(s, ls, END_OF_LINE)
       IN  IF le # 0
           THEN maxLenLoop(s, ls, le - ls, r1)
           ELSE LET rest == Len(s) - ls + 1
                IN  IF rest > r1 THEN rest ELSE r1
  ELSE result

maxLen(s) ==
  LET le == strstr(s, 1, END_OF_LINE)
  IN  IF le # 0 THEN maxLenLoop(s, 1, le - 1, 0) ELSE Len(s)

\* a constructor that keeps the leading blanks of the packet
UPnPBuffer_Raw(buff) == [_buffer |-> buff, _maxLen |-> maxLen(buff) + 1]

\* UPnPBuffer::UPnPBuffer: skip the leading blanks, cache the line buffer size
UPnPBuffer(buff) ==
  LET b == From(buff, SkipSpaces(buff, 1))
  IN  [_buffer |-> b, _maxLen |-> maxLen(b) + 1]

maxLineLength(b) == b._maxLen

isSearchRequest(b) == strncmpEq(b._buffer, M_SEARCH_HEADER, 8)
isSearchResponse(b) == strncmpEq(b._buffer, RESPONSE_HEADER, 8)

\* a hasNextLine that takes the empty line for a line to read
hasNextLine_AnyLine(b, lineStart) ==
  IF lineStart = 0 THEN FALSE
  ELSE strstr(b._buffer, lineStart, END_OF_LINE) # 0

\* UPnPBuffer::hasNextLine
hasNextLine(b, lineStart) ==
  IF lineStart = 0 THEN FALSE
  ELSE LET lineEnd == strstr(b._buffer, lineStart, END_OF_LINE)
       IN  IF lineEnd # 0 THEN (lineEnd - lineStart) > 0 ELSE FALSE

\* a getNextLine that returns the byte after the EOL, blank or not
getNextLine_NoSkip(b, lineStart, bufferLen) ==
  LET s       == b._buffer
      lineEnd == IF lineStart = 0 THEN 0 ELSE strstr(s, lineStart, END_OF_LINE)
  IN  IF lineEnd = 0
      THEN [result |-> 0, buffer |-> "0"]
      ELSE [result |-> lineEnd + 2,
            buffer |-> strlcpy("0", From(s, lineStart),
                               Min(bufferLen, lineEnd - lineStart + 1))]

\* UPnPBuffer::getNextLine: the returned cursor and the content of buffer.
\* When no EOL follows, buffer holds '0' in its first byte and nothing else
\* has been written.
getNextLine(b, lineStart, bufferLen) ==
  LET s       == b._buffer
      lineEnd == IF lineStart = 0 THEN 0 ELSE strstr(s, lineStart, END_OF_LINE)
  IN  IF lineEnd = 0
      THEN [result |-> 0, buffer |-> "0"]
      ELSE LET len0    == lineEnd - lineStart + 1
               lineLen == IF bufferLen < len0 THEN bufferLen ELSE len0
           IN  [result |-> SkipSpaces(s, lineEnd + 2),
                buffer |-> strlcpy("0", From(s, lineStart), lineLen)]

\* a line test that takes the header name wherever it stands in the line
headerLine_Anywhere(lineBuff, header, acc, len) ==
  LET headerLen   == Len(header)
      headerStart == strstr(lineBuff, 1, header)
  IN  IF headerStart = 0 THEN acc
      ELSE LET headerEnd == headerStart + headerLen
           IN  IF CharAt(lineBuff, headerEnd) \in {" ", ":"}
               THEN LET colon == strstr(lineBuff, headerStart, ":")
                    IN  IF colon = 0 THEN acc
                        ELSE LET hv   == SkipSpaces(lineBuff, colon + 1)
                                 slen == Len(lineBuff) - hv + 1
                             IN  IF slen > 0
                                 THEN LET he   == BackSpaces(lineBuff, hv + slen)
                                          hlen == Min(he - hv + 1, len)
                                      IN  [result |-> TRUE,
                                           buffer |-> strlcpy("", From(lineBuff, hv), hlen)]
                                 ELSE [result |-> TRUE, buffer |-> ""]
               ELSE acc

\* the body of the while loop of UPnPBuffer::headerValue for one line:
\* acc is [result, buffer] before the line, the value is acc after it
headerLine(lineBuff, header, acc, len) ==
  LET headerLen   == Len(header)
      headerStart == strstr(lineBuff, 1, header)
  IN  IF headerStart = 0 THEN acc
      ELSE LET headerEnd == headerStart + headerLen
           IN  IF headerStart = 1 /\ CharAt(lineBuff, headerEnd) \in {" ", ":"}
               THEN LET colon == strstr(lineBuff, headerStart, ":")
                    IN  IF colon = 0 THEN acc
                        ELSE LET hv   == SkipSpaces(lineBuff, colon + 1)
                                 slen == Len(lineBuff) - hv + 1
                             IN  IF slen > 0
                                 THEN LET he   == BackSpaces(lineBuff, hv + slen)
                                          hlen == Min(he - hv + 1, len)
                                      IN  [result |-> TRUE,
                                           buffer |-> strlcpy("", From(lineBuff, hv), hlen)]
                                 ELSE [result |-> TRUE, buffer |-> ""]
               ELSE acc

\* a lines loop that stops at the first line that matches
RECURSIVE headerLoop_First(_, _, _, _, _)
headerLoop_First(b, header, lineStart, acc, len) ==
  IF hasNextLine(b, lineStart) /\ ~acc.result
  THEN LET nl == getNextLine(b, lineStart, maxLineLength(b))
       IN  headerLoop_First(b, header, nl.result, headerLine(nl.buffer, header, acc, len), len)
  ELSE acc

RECURSIVE headerLoop(_, _, _, _, _)
headerLoop(b, header, lineStart, acc, len) ==
  IF hasNextLine(b, lineStart)
  THEN LET nl == getNextLine(b, lineStart, maxLineLength(b))
       IN  headerLoop(b, header, nl.result, headerLine(nl.buffer, header, acc, len), len)
  ELSE acc

\* a lookup that reports every header as found
headerValue_Found(b, header, buffer, len) ==
  [headerLoop(b, header, 1, [result |-> FALSE, buffer |-> buffer], len) EXCEPT !.result = TRUE]

\* UPnPBuffer::headerValue (and headerValue_P): buffer is the content of the
\* caller's buffer before the call
headerValue(b, header, buffer, len) ==
  headerLoop(b, header, 1, [result |-> FALSE, buffer |-> buffer], len)

\* The indices of buffer[] that headerValue stores into for one line: none
\* when the line does not match, else index 0 and the hlen bytes of strlcpy,
\* the last of which is the terminator.
lineWrites(lineBuff, header, len) ==
  LET r == headerLine(lineBuff, header, [result |-> FALSE, buffer |-> ""], len)
  IN  IF r.result THEN 0..Len(r.buffer) ELSE {}

\* the indices of buffer[] that headerValue stores into, over all lines
RECURSIVE headerWrites(_, _, _, _)
headerWrites(b, header, lineStart, len) ==
  IF hasNextLine(b, lineStart)
  THEN LET nl == getNextLine(b, lineStart, maxLineLength(b))
       IN  lineWrites(nl.buffer, header, len) \cup headerWrites(b, header, nl.result, len)
  ELSE {}

\* the indices of buffer[] that displayName stores into: buffer[0] = 0, then
\* the bytes of strlcpy(buffer, start, nameLen) and buffer[nameLen-1] = 0
nameWrites(b, len) ==
  LET hv    == headerValue(b, DESC_LSC_HEADER, "", DESC_BUFFER_SIZE)
      hb    == hv.buffer
      start == strstr(hb, 1, ":name:")
      end   == IF start = 0 THEN 0 ELSE strstr(hb, start + 6, ":")
      len0  == end - (start + 6) + 1
      nameLen == IF len0 > len THEN len - 1 ELSE len0
  IN  {0} \cup (IF hv.result /\ start # 0 /\ end # 0
                THEN 0..(nameLen - 1) \cup {nameLen - 1}
                ELSE {})

\* a displayName that answers true only when it has found a name
displayName_Named(b, len) ==
  LET hv    == headerValue(b, DESC_LSC_HEADER, "", DESC_BUFFER_SIZE)
      hb    == hv.buffer
      start == strstr(hb, 1, ":name:")
      end   == IF start = 0 THEN 0 ELSE strstr(hb, start + 6, ":")
      len0  == end - (start + 6) + 1
      nameLen == IF len0 > len THEN len - 1 ELSE len0
  IN  [result |-> hv.result /\ start # 0 /\ end # 0,
       buffer |-> IF hv.result /\ start # 0 /\ end # 0
                  THEN Take(strlcpy("", From(hb, start + 6), nameLen), nameLen - 1)
                  ELSE ""]

\* UPnPBuffer::displayName: buffer[0] = 0 first, then the text between
\* ":name:" and the next ':' of the DESC value; the result is headerValue's
displayName(b, len) ==
  LET hv    == headerValue(b, DESC_LSC_HEADER, "", DESC_BUFFER_SIZE)
      hb    == hv.buffer
      start == strstr(hb, 1, ":name:")
      end   == IF start = 0 THEN 0 ELSE strstr(hb, start + 6, ":")
      len0  == end - (start + 6) + 1
      nameLen == IF len0 > len THEN len - 1 ELSE len0
  IN  [result |-> hv.result,
       buffer |-> IF hv.result /\ start # 0 /\ end # 0
                  THEN Take(strlcpy("", From(hb, start + 6), nameLen), nameLen - 1)
                  ELSE ""]

\* ------------------------------------------------------------------------
\* The device tree (UPnPDevice library): a RootDevice owns services and
\* embedded devices, an embedded device owns services.  A node pointer is
\* [dev, svc]: dev = 0 is the root, dev = i the i-th embedded device, svc = 0
\* the device itself, svc = j its j-th service.
\* ------------------------------------------------------------------------
NULL == [dev |-> -1, svc |-> 0]
DevPtr(d) == [dev |-> d, svc |-> 0]
SvcPtr(d, j) == [dev |-> d, svc |-> j]
RootPtr == DevPtr(0)

\* the record of the device a pointer designates
DevOf(t, p) == IF p.dev = 0 THEN t ELSE t.devices[p.dev]
\* the record of the service a pointer designates
SvcOf(t, p) == DevOf(t, p).services[p.svc]

uuid(t, p) == DevOf(t, p).uuid
getType(t, p) == IF p.svc = 0 THEN DevOf(t, p).type ELSE SvcOf(t, p).type
getDisplayName(t, p) == IF p.svc = 0 THEN DevOf(t, p).name ELSE SvcOf(t, p).name
getTarget(t, p) == IF p.svc = 0 THEN DevOf(t, p).target ELSE SvcOf(t, p).target
numServices(t, p) == Len(DevOf(t, p).services)
numDevices(t) == Len(t.devices)
services(t, p) == [j \in 1..numServices(t, p) |-> SvcPtr(p.dev, j)]
devices(t) == [i \in 1..numDevices(t) |-> DevPtr(i)]
asRootDevice(p) == IF p.dev = 0 /\ p.svc = 0 THEN p ELSE NULL
\* NULL for the root and for a node whose parent was never set, which the
\* tree lists in orphans
parentAsDevice(t, p) ==
  IF p \in t.orphans THEN NULL
  ELSE IF p.svc # 0 THEN DevPtr(p.dev) ELSE IF p.dev = 0 THEN NULL ELSE RootPtr
isType(t, p, st) == getType(t, p) = st

\* RootDevice::getDevice: the root or the first embedded device with that uuid
getDevice(t, u) ==
  IF t.uuid = u THEN RootPtr
  ELSE LET hits == {i \in 1..numDevices(t) : t.devices[i].uuid = u}
       IN  IF hits = {} THEN NULL
           ELSE DevPtr(CHOOSE i \in hits : \A k \in hits : i <= k)

\* ------------------------------------------------------------------------
\* Network interfaces.  An IPAddress is its four octets; the uint32_t it
\* converts to is the same four bytes, so a bitwise AND acts octet by octet.
\* ------------------------------------------------------------------------
INADDR_ANY == <<0, 0, 0, 0>>
local_IP == <<10, 0, 0, 165>>
softAP_IP == <<192, 168, 4, 1>>
subnet == <<255, 255, 255, 0>>
SERVER_PORT == 80

RECURSIVE BitAnd(_, _)
BitAnd(a, b) ==
  IF a = 0 \/ b = 0 THEN 0
  ELSE (a % 2) * (b % 2) + 2 * BitAnd(a \div 2, b \div 2)

And32(x, y) == [i \in 1..4 |-> BitAnd(x[i], y[i])]
IsZero32(x) == \A i \in 1..4 : x[i] = 0

\* SSDP::interfaceAddress
interfaceAddress(address) ==
  LET localIPMask  == And32(local_IP, subnet)
      softAPIPMask == And32(softAP_IP, subnet)
  IN  IF ~IsZero32(And32(address, localIPMask)) THEN local_IP
      ELSE IF ~IsZero32(And32(address, softAPIPMask)) THEN softAP_IP
      ELSE INADDR_ANY

IPStr(a) == IntStr(a[1]) \o "." \o IntStr(a[2]) \o "." \o IntStr(a[3]) \o "." \o IntStr(a[4])

\* RootDevice::rootLocation and UPnPObject::location into a buffer of size bytes
rootLocation(t, size, ifc) ==
  Take("http://" \o IPStr(ifc) \o ":" \o IntStr(SERVER_PORT) \o "/", size - 1)

location(t, p, size, ifc) ==
  LET base == "http://" \o IPStr(ifc) \o ":" \o IntStr(SERVER_PORT) \o "/" \o t.target
      dev  == IF p.dev = 0 THEN base ELSE base \o "/" \o DevOf(t, p).target
  IN  Take(IF p.svc = 0 THEN dev ELSE dev \o "/" \o SvcOf(t, p).target, size - 1)

\* ------------------------------------------------------------------------
\* Response templates (snprintf_P into txnBuffer of TXN_BUFFER_SIZE bytes)
\* ------------------------------------------------------------------------
\* a header block whose ST line carries the second USN argument
RESPONSE_HEAD_Type(loc, st, a, b) ==
  "HTTP/1.1 200 OK " \o CRLF
  \o "CACHE-CONTROL: max-age = 1800 " \o CRLF
  \o "LOCATION: " \o loc \o CRLF
  \o "ST: " \o b \o CRLF
  \o "USN: uuid:" \o a \o "::" \o b \o CRLF

\* the lines shared by ROOT_RESPONSE, DEVICE_RESPONSE and SERVICE_RESPONSE
RESPONSE_HEAD(loc, st, a, b) ==
  "HTTP/1.1 200 OK " \o CRLF
  \o "CACHE-CONTROL: max-age = 1800 " \o CRLF
  \o "LOCATION: " \o loc \o CRLF
  \o "ST: " \o st \o CRLF
  \o "USN: uuid:" \o a \o "::" \o b \o CRLF

SERVICE_RESPONSE(loc, st, a, b, name, puuid) ==
  RESPONSE_HEAD(loc, st, a, b)
  \o "DESC.LEELANAUSOFTWARE.COM: :name:" \o name \o ":puuid:" \o puuid \o ":"
  \o CRLF \o CRLF \o CRLF

\* a device template that describes the device the way a root is described
DEVICE_RESPONSE_Counters(loc, st, a, b, name, ns, puuid) ==
  RESPONSE_HEAD(loc, st, a, b)
  \o "DESC.LEELANAUSOFTWARE.COM: :name:" \o name \o ":devices:" \o IntStr(0)
  \o ":services:" \o IntStr(ns) \o ":" \o CRLF \o CRLF \o CRLF

DEVICE_RESPONSE(loc, st, a, b, name, ns, puuid) ==
  RESPONSE_HEAD(loc, st, a, b)
  \o "DESC.LEELANAUSOFTWARE.COM: :name:" \o name \o ":services:" \o IntStr(ns)
  \o ":puuid:" \o puuid \o ":" \o CRLF \o CRLF \o CRLF

\* a root template whose DESC value starts with name: as the README writes it
ROOT_RESPONSE_Readme(loc, st, a, b, name, nd, ns) ==
  RESPONSE_HEAD(loc, st, a, b)
  \o "DESC.LEELANAUSOFTWARE.COM: name:" \o name \o ":devices:" \o IntStr(nd)
  \o ":services:" \o IntStr(ns) \o CRLF \o CRLF \o CRLF

ROOT_RESPONSE(loc, st, a, b, name, nd, ns) ==
  RESPONSE_HEAD(loc, st, a, b)
  \o "DESC.LEELANAUSOFTWARE.COM: :name:" \o name \o ":devices:" \o IntStr(nd)
  \o ":services:" \o IntStr(ns) \o ":" \o CRLF \o CRLF \o CRLF

snprintf(size, text) == Take(text, size - 1)

\* ------------------------------------------------------------------------
\* SSDP server: post handlers
\* A datagram is [data, remoteAddr, port] and the socket whose beginPacket
\* takes it; fn and node record which post
\* function built it and for which node of the tree, fmt the location, the
\* ST, the two USN arguments and the display name given to snprintf_P.
\* ------------------------------------------------------------------------

\* SSDP::postDeviceResponse: the datagram handed to _udp
postDeviceResponse(t, d, st, remoteAddr, port) ==
  LET r       == asRootDevice(d)
      p       == parentAsDevice(t, d)
      ifc     == interfaceAddress(remoteAddr)
      locBuff == IF r # NULL THEN rootLocation(t, LOC_BUFF_SIZE, ifc)
                 ELSE location(t, d, LOC_BUFF_SIZE, ifc)
      txnBuffer ==
        IF r # NULL
        THEN snprintf(TXN_BUFFER_SIZE,
               ROOT_RESPONSE(locBuff, st, uuid(t, d), getType(t, d), getDisplayName(t, d),
                             numDevices(t), numServices(t, r)))
        ELSE IF p # NULL
        THEN snprintf(TXN_BUFFER_SIZE,
               DEVICE_RESPONSE(locBuff, st, uuid(t, d), getType(t, d), getDisplayName(t, d),
                               numServices(t, d), uuid(t, p)))
        ELSE snprintf(TXN_BUFFER_SIZE,
               ROOT_RESPONSE(locBuff, st, uuid(t, d), getType(t, d), getDisplayName(t, d),
                             0, numServices(t, d)))
  IN  [data |-> txnBuffer, remoteAddr |-> remoteAddr, port |-> port,
       sock |-> "_udp", fn |-> "postDeviceResponse", node |-> d,
       fmt |-> [loc |-> locBuff, st |-> st, usn |-> <<uuid(t, d), getType(t, d)>>,
                name |-> getDisplayName(t, d)]]

\* SSDP::postServiceResponse: the datagram handed to _udp
postServiceResponse(t, s, st, remoteAddr, port) ==
  LET ifc     == interfaceAddress(remoteAddr)
      p       == parentAsDevice(t, s)
      locBuff == location(t, s, LOC_BUFF_SIZE, ifc)
      txnBuffer ==
        IF p # NULL
        THEN snprintf(TXN_BUFFER_SIZE,
               SERVICE_RESPONSE(locBuff, st, getType(t, s), uuid(t, p),
                                getDisplayName(t, s), uuid(t, p)))
        ELSE ""
  IN  [data |-> txnBuffer, remoteAddr |-> remoteAddr, port |-> port,
       sock |-> "_udp", fn |-> "postServiceResponse", node |-> s,
       fmt |-> [loc |-> locBuff, st |-> st,
                usn |-> IF p # NULL THEN <<getType(t, s), uuid(t, p)>> ELSE <<>>,
                name |-> getDisplayName(t, s)]]

\* the concatenation of f[1], ..., f[n]
RECURSIVE Flatten(_, _)
Flatten(f, n) == IF n = 0 THEN <<>> ELSE Flatten(f, n - 1) \o f[n]

\* an expansion that answers the embedded devices before the services
RECURSIVE postAllResponse_DevicesFirst(_, _, _, _, _)
postAllResponse_DevicesFirst(t, d, st, remoteAddr, port) ==
  <<postDeviceResponse(t, d, st, remoteAddr, port)>>
  \o (IF asRootDevice(d) # NULL
      THEN Flatten([i \in 1..numDevices(t) |->
                      postAllResponse_DevicesFirst(t, devices(t)[i], st, remoteAddr, port)],
                   numDevices(t))
      ELSE <<>>)
  \o [i \in 1..numServices(t, d) |->
        postServiceResponse(t, services(t, d)[i], st, remoteAddr, port)]

\* an expansion that stops at the device's own services
postAllResponse_NoDevices(t, d, st, remoteAddr, port) ==
  <<postDeviceResponse(t, d, st, remoteAddr, port)>>
  \o [i \in 1..numServices(t, d) |->
        postServiceResponse(t, services(t, d)[i], st, remoteAddr, port)]

\* SSDP::postAllResponse: the datagrams in emission order
RECURSIVE postAllResponse(_, _, _, _, _)
postAllResponse(t, d, st, remoteAddr, port) ==
  LET svcs == services(t, d)
      r    == asRootDevice(d)
  IN  <<postDeviceResponse(t, d, st, remoteAddr, port)>>
      \o [i \in 1..numServices(t, d) |-> postServiceResponse(t, svcs[i], st, remoteAddr, port)]
      \o (IF r # NULL
          THEN Flatten([i \in 1..numDevices(t) |->
                          postAllResponse(t, devices(t)[i], st, remoteAddr, port)],
                       numDevices(t))
          ELSE <<>>)

\* a type search that looks at the device and its services only
postAllMatching_Flat(t, d, st, remoteAddr, port) ==
  LET svcs == services(t, d)
  IN  (IF isType(t, d, st) THEN <<postDeviceResponse(t, d, st, remoteAddr, port)>> ELSE <<>>)
      \o Flatten([i \in 1..numServices(t, d) |->
                    IF isType(t, svcs[i], st)
                    THEN <<postServiceResponse(t, svcs[i], st, remoteAddr, port)>>
                    ELSE <<>>],
                 numServices(t, d))

\* SSDP::postAllMatching: the datagrams in emission order
RECURSIVE postAllMatching(_, _, _, _, _)
postAllMatching(t, d, st, remoteAddr, port) ==
  LET svcs == services(t, d)
      r    == asRootDevice(d)
  IN  (IF isType(t, d, st) THEN <<postDeviceResponse(t, d, st, remoteAddr, port)>> ELSE <<>>)
      \o Flatten([i \in 1..numServices(t, d) |->
                    IF isType(t, svcs[i], st)
                    THEN <<postServiceResponse(t, svcs[i], st, remoteAddr, port)>>
                    ELSE <<>>],
                 numServices(t, d))
      \o (IF r # NULL
          THEN Flatten([i \in 1..numDevices(t) |->
                          postAllMatching(t, devices(t)[i], st, remoteAddr, port)],
                       numDevices(t))
          ELSE <<>>)

\* ------------------------------------------------------------------------
\* SSDP server: readChannel / doChannel / doSSDP
\* A post handler is the closure [fn, d, st, remoteAddr, port]; fn = "nop" is
\* the default handler []{}.
\* ------------------------------------------------------------------------
NopHandler == [fn |-> "nop", d |-> NULL, st |-> "", remoteAddr |-> INADDR_ANY, port |-> 0]
\* a closure that answers to the multicast group instead of the requester
Handler_Group(fn, d, st, remoteAddr, port) ==
  [fn |-> fn, d |-> d, st |-> st, remoteAddr |-> <<239, 255, 255, 250>>, port |-> 1900]

Handler(fn, d, st, remoteAddr, port) ==
  [fn |-> fn, d |-> d, st |-> st, remoteAddr |-> remoteAddr, port |-> port]

\* a copy that ends uuid[] with a terminator in its last byte
getUUID_Terminated(st) == strncpy(From(st, SkipSpaces(st, 6)), UUID_SIZE - 1)

\* a copy that starts one character early, at the colon of uuid:
getUUID_Colon(st) == strncpy(From(st, SkipSpaces(st, 5)), UUID_SIZE)

\* a copy that keeps the blanks after uuid:
getUUID_NoSkip(st) == strncpy(From(st, 6), UUID_SIZE)

\* st_header + 5 with the leading blanks removed, copied into uuid[UUID_SIZE].
\* A source of UUID_SIZE or more characters leaves uuid[] without terminator;
\* whatever bytes follow it, the string read has at least UUID_SIZE characters
\* and so differs from every uuid of the tree, which has UUID_SIZE - 1.
getUUID(st) == strncpy(From(st, SkipSpaces(st, 6)), UUID_SIZE)

\* a gate test that takes every gate value for ssdp:all
isSsdpAll_Always(st_lsc_header) == TRUE

\* a gate test that asks for the value ssdp:all and nothing after it
isSsdpAll_Exact(st_lsc_header) == st_lsc_header = SSDP_ALL

\* strncmp_P(st_lsc_header, SSDP_ALL, 8) == 0
isSsdpAll(st_lsc_header) == strncmpEq(st_lsc_header, SSDP_ALL, 8)

\* SSDP::readChannel on the packet pkt of the channel: the result and the
\* post handler it leaves installed
readChannel(t, pkt) ==
  LET remoteAddr == pkt.remoteIP
      port       == pkt.remotePort
      txnBuffer  == Take(pkt.data, TXN_BUFFER_SIZE)
      buffer     == UPnPBuffer(txnBuffer)
      lsc        == headerValue(buffer, ST_LSC_HEADER, "", ST_LSC_HEADER_SIZE)
      st         == headerValue(buffer, ST_HEADER, "", ST_HEADER_SIZE)
      st_header  == st.buffer
      none       == [result |-> FALSE, handler |-> NopHandler]
  IN  IF ~isSearchRequest(buffer) THEN none
      ELSE IF ~lsc.result THEN none
      ELSE IF ~st.result THEN none
      ELSE IF strncmpEq(st_header, ST_UPNP_ROOTDEVICE, 15)
      THEN [result |-> TRUE,
            handler |-> IF isSsdpAll(lsc.buffer)
                        THEN Handler("postAllResponse", RootPtr, st_header, remoteAddr, port)
                        ELSE Handler("postDeviceResponse", RootPtr, st_header, remoteAddr, port)]
      ELSE IF strncmpEq(st_header, ST_UUID, 5)
      THEN LET device == getDevice(t, getUUID(st_header))
           IN  IF device # NULL
               THEN [result |-> TRUE,
                     handler |-> IF isSsdpAll(lsc.buffer)
                                 THEN Handler("postAllResponse", device, st_header, remoteAddr, port)
                                 ELSE Handler("postDeviceResponse", device, st_header, remoteAddr, port)]
               ELSE none
      ELSE IF strncmpEq(st_header, ST_TYPE, 4)
      THEN [result |-> TRUE,
            handler |-> Handler("postAllMatching", RootPtr, st_header, remoteAddr, port)]
      ELSE none

\* _postHandler(): the datagrams the installed closure emits
runPostHandler(t, h) ==
  IF h.fn = "postAllResponse" THEN postAllResponse(t, h.d, h.st, h.remoteAddr, h.port)
  ELSE IF h.fn = "postDeviceResponse"
  THEN <<postDeviceResponse(t, h.d, h.st, h.remoteAddr, h.port)>>
  ELSE IF h.fn = "postAllMatching" THEN postAllMatching(t, h.d, h.st, h.remoteAddr, h.port)
  ELSE <<>>

\* a doChannel that empties the socket: it answers the first pending packet
\* and discards the others
doChannel_Drain(t, queue, handler, ch) ==
  LET rc  == IF queue # <<>> THEN readChannel(t, Head(queue))
             ELSE [result |-> FALSE, handler |-> handler]
      out == IF rc.result THEN runPostHandler(t, rc.handler) ELSE <<>>
  IN  [queue   |-> <<>>,
       handler |-> rc.handler,
       out     |-> [i \in 1..Len(out) |-> [ch |-> ch, dgram |-> out[i]]],
       read    |-> IF queue # <<>> THEN <<Head(queue)>> ELSE <<>>]

\* a doChannel that calls _postHandler() whether or not a reply is due
doChannel_Always(t, queue, handler, ch) ==
  LET packetSize == IF queue = <<>> THEN 0 ELSE Len(Head(queue).data)
      rc         == IF packetSize # 0 THEN readChannel(t, Head(queue))
                    ELSE [result |-> FALSE, handler |-> handler]
      out        == runPostHandler(t, rc.handler)
  IN  [queue   |-> IF packetSize # 0 THEN Tail(queue) ELSE queue,
       handler |-> rc.handler,
       out     |-> [i \in 1..Len(out) |-> [ch |-> ch, dgram |-> out[i]]],
       read    |-> IF packetSize # 0 THEN <<Head(queue)>> ELSE <<>>]

\* a doChannel that runs the handler installed before the packet was read
doChannel_Stale(t, queue, handler, ch) ==
  LET packetSize == IF queue = <<>> THEN 0 ELSE Len(Head(queue).data)
      rc         == IF packetSize # 0 THEN readChannel(t, Head(queue))
                    ELSE [result |-> FALSE, handler |-> handler]
      out        == IF rc.result THEN runPostHandler(t, handler) ELSE <<>>
  IN  [queue   |-> IF packetSize # 0 THEN Tail(queue) ELSE queue,
       handler |-> rc.handler,
       out     |-> [i \in 1..Len(out) |-> [ch |-> ch, dgram |-> out[i]]],
       read    |-> IF packetSize # 0 THEN <<Head(queue)>> ELSE <<>>]

\* SSDP::doChannel on a channel whose pending packets are queue: the queue,
\* the installed handler and the datagrams emitted afterwards; read is the
\* packet that was read, if any
doChannel(t, queue, handler, ch) ==
  LET packetSize == IF queue = <<>> THEN 0 ELSE Len(Head(queue).data)
      rc         == IF packetSize # 0 THEN readChannel(t, Head(queue))
                    ELSE [result |-> FALSE, handler |-> handler]
      reply      == rc.result
      out        == IF reply THEN runPostHandler(t, rc.handler) ELSE <<>>
  IN  [queue   |-> IF packetSize # 0 THEN Tail(queue) ELSE queue,
       handler |-> rc.handler,
       out     |-> [i \in 1..Len(out) |-> [ch |-> ch, dgram |-> out[i]]],
       read    |-> IF packetSize # 0 THEN <<Head(queue)>> ELSE <<>>]

\* What _udp.beginPacket and _udp.endPacket answer in a tick: begin and end
\* are the positions, among the datagrams of the tick, of those for which
\* the call fails.
NoFaults == [begin |-> {}, end |-> {}]
okOf(f, k) == [begin |-> IF k \in f.begin THEN 0 ELSE 1, end |-> IF k \in f.end THEN 0 ELSE 1]

\* a tick that gives up at the first datagram that could not be sent
sendAll_Abort(out, f) ==
  LET bad == {k \in 1..Len(out) : k \in f.begin \/ k \in f.end}
      n   == IF bad = {} THEN Len(out) ELSE CHOOSE k \in bad : \A j \in bad : k <= j
  IN  [k \in 1..n |-> [ch |-> out[k].ch, dgram |-> out[k].dgram, ok |-> okOf(f, k)]]

\* the sends of a tick: beginPacket, write and endPacket for each datagram
\* in turn; an answer other than 1 is logged and nothing else
sendAll(out, f) ==
  [k \in 1..Len(out) |-> [ch |-> out[k].ch, dgram |-> out[k].dgram, ok |-> okOf(f, k)]]

\* ------------------------------------------------------------------------
\* The device trees the server is started with
\* ------------------------------------------------------------------------
RootUUID == "b2234c12-417f-4e3c-b5d6-4d418143e85d"
DevUUID(i) == "1fda2c59-0a8e-4355-bebd-68e3af78cbe" \o Digit(i)
UnknownUUID == "11deb826-c525-4aae-abbe-65ed91ef5fee"
RootType == "urn:x-com:device:RootDevice:1"
ClockType == "urn:x-com:device:Clock:1"
ThermometerType == "urn:x-com:device:Thermometer:1"
GetDateTimeType == "urn:x-com:service:GetDateTime:1"
BasicServiceType == "urn:x-com:service:Basic:1"
UnknownType == "urn:x-com:device:Relay:1"

DeviceType(i) == IF i <= 2 THEN ClockType ELSE ThermometerType
ServiceType(j) == IF j % 2 = 1 THEN GetDateTimeType ELSE BasicServiceType

Service(d, j) ==
  [type |-> ServiceType(j),
   name |-> "Service " \o IntStr(d) \o "." \o IntStr(j),
   target |-> "service" \o IntStr(j)]

\* the tree whose root has rs services and whose i-th embedded device has ds[i] services
Tree(rs, ds) ==
  [uuid |-> RootUUID, type |-> RootType, name |-> "Device Test", target |-> "device",
   orphans |-> {},
   services |-> [j \in 1..rs |-> Service(0, j)],
   devices |-> [i \in 1..Len(ds) |->
                  [uuid |-> DevUUID(i), type |-> DeviceType(i),
                   name |-> "Device " \o IntStr(i), target |-> "embedded" \o IntStr(i),
                   services |-> [j \in 1..ds[i] |-> Service(i, j)]]]]

\* root(svcs = [S1], devs = [D1(svcs = [S2])])
SmallTree == Tree(1, <<1>>)

\* n filler characters
RECURSIVE Pad(_)
Pad(n) ==
  IF n = 0 THEN ""
  ELSE IF n % 2 = 1 THEN "x" \o Pad(n - 1)
  ELSE LET half == Pad(n \div 2) IN half \o half

\* SmallTree with a type string of ST_HEADER_SIZE - 1 characters for S2
LongType == ST_TYPE \o "x-com:service:" \o Pad(ST_HEADER_SIZE - 21) \o ":1"
LongTree == [SmallTree EXCEPT !.devices[1].services[1].type = LongType]

\* SmallTree with display names that contain a colon
ColonTree ==
  [SmallTree EXCEPT !.name = "Clock: Kitchen", !.services[1].name = "Time:UTC"]

\* every root with up to MaxServices services and up to MaxDevices embedded
\* devices, each of these without services or with MaxServices of them
Trees ==
  {Tree(rs, ds) : rs \in 0..MaxServices,
                  ds \in UNION {[1..nd -> {0, MaxServices}] : nd \in 0..MaxDevices}}
  \cup {SmallTree, LongTree, ColonTree}

\* ------------------------------------------------------------------------
\* The datagrams peers send to the server.  A packet is built from its
\* first line, its ST header value and its gate header value; <<>> stands
\* for an absent header line and <<v>> for a line with value v.
\* ------------------------------------------------------------------------
HeaderLineOf(name, v) == IF v = <<>> THEN "" ELSE name \o ": " \o v[1] \o CRLF

PacketData(line1, st, gate) ==
  line1 \o CRLF
  \o "HOST: 239.255.255.250:1900" \o CRLF
  \o HeaderLineOf(ST_HEADER, st)
  \o HeaderLineOf(ST_LSC_HEADER, gate)
  \o CRLF

M_SEARCH_LINE == "M-SEARCH * HTTP/1.1"
RESPONSE_LINE == "HTTP/1.1 200 OK "
NOTIFY_LINE == "NOTIFY * HTTP/1.1"

\* uuid searches written with blanks after the colon, as in the example of
\* the searchRequest documentation
SpacedSTs == {ST_UUID \o " " \o RootUUID, ST_UUID \o "   " \o DevUUID(1)}

STValues ==
  { ST_UPNP_ROOTDEVICE,
    ST_UUID \o RootUUID, ST_UUID \o DevUUID(1), ST_UUID \o DevUUID(2),
    ST_UUID \o UnknownUUID, ST_UUID \o RootUUID \o "0",
    RootType, ClockType, GetDateTimeType, BasicServiceType, UnknownType,
    SSDP_ALL, ST_UPNP_ROOTDEVICE \o "-x",
    ST_UPNP_ROOTDEVICE \o Pad(PadLen), LongType, LongType \o "x" }

Requests ==
  {[line1 |-> M_SEARCH_LINE, st |-> st, gate |-> gate] :
      st \in {<<>>} \cup {<<v>> : v \in STValues},
      gate \in {<<>>, <<"">>, <<SSDP_ALL>>}}
  \cup
  {[line1 |-> M_SEARCH_LINE, st |-> <<v>>, gate |-> <<g>>] :
      v \in {ST_UPNP_ROOTDEVICE, ST_UUID \o RootUUID},
      g \in {SSDP_ALL \o "-more", "none", "ssdp:al", "SSDP:ALL"}}
  \cup
  {[line1 |-> l, st |-> <<ST_UPNP_ROOTDEVICE>>, gate |-> <<SSDP_ALL>>] :
      l \in {RESPONSE_LINE, NOTIFY_LINE}}
  \cup
  {[line1 |-> M_SEARCH_LINE, st |-> <<v>>, gate |-> <<g>>] :
      v \in SpacedSTs, g \in {"", SSDP_ALL}}

PeerLAN == [ip |-> <<10, 0, 0, 7>>, port |-> 50000]
PeerAP == [ip |-> <<192, 168, 4, 2>>, port |-> 50001]
\* a requester on neither subnet of the server
PeerRouted == [ip |-> <<10, 0, 1, 7>>, port |-> 50002]

\* a datagram in flight to the server: req records what it was built from
Packet(r, p) ==
  [data |-> PacketData(r.line1, r.st, r.gate), remoteIP |-> p.ip, remotePort |-> p.port,
   req |-> r]

\* a plain root search of more than TXN_BUFFER_SIZE bytes, by its last header
BigPacket ==
  [data |-> M_SEARCH_LINE \o CRLF
            \o HeaderLineOf(ST_HEADER, <<ST_UPNP_ROOTDEVICE>>)
            \o HeaderLineOf(ST_LSC_HEADER, <<"">>)
            \o "USER-AGENT: " \o Pad(TXN_BUFFER_SIZE) \o CRLF \o CRLF,
   remoteIP |-> PeerLAN.ip, remotePort |-> PeerLAN.port,
   req |-> [line1 |-> M_SEARCH_LINE, st |-> <<ST_UPNP_ROOTDEVICE>>, gate |-> <<"">>]]

\* searches that carry the gate header, the ST header or both after the
\* empty line that ends the header lines
BodyPacket(st, gate, after) ==
  [data |-> PacketData(M_SEARCH_LINE, st, gate) \o after,
   remoteIP |-> PeerLAN.ip, remotePort |-> PeerLAN.port,
   req |-> [line1 |-> M_SEARCH_LINE, st |-> st, gate |-> gate]]
BodyPackets ==
  { BodyPacket(<<ST_UPNP_ROOTDEVICE>>, <<>>, HeaderLineOf(ST_LSC_HEADER, <<SSDP_ALL>>)),
    BodyPacket(<<>>, <<SSDP_ALL>>, HeaderLineOf(ST_HEADER, <<ST_UPNP_ROOTDEVICE>>)),
    BodyPacket(<<>>, <<>>, HeaderLineOf(ST_HEADER, <<ST_UPNP_ROOTDEVICE>>)
                             \o HeaderLineOf(ST_LSC_HEADER, <<"">>) \o CRLF) }

Packets ==
  {Packet(r, PeerLAN) : r \in Requests}
  \cup {BigPacket}
  \cup BodyPackets
  \cup {Packet(r, PeerAP) : r \in {q \in Requests : q.gate = <<SSDP_ALL>> /\ q.st # <<>>}}
  \cup {Packet([line1 |-> M_SEARCH_LINE, st |-> <<ST_UPNP_ROOTDEVICE>>, gate |-> <<"">>],
                PeerRouted)}

\* ------------------------------------------------------------------------
\* State
\* ------------------------------------------------------------------------
VARIABLES
  root,          \* _root: the device tree handed to SSDP::begin
  net,           \* datagrams in flight to the server
  mUdp,          \* packets pending on the multicast socket _mUdp
  udp,           \* packets pending on the unicast socket _udp
  postHandler,   \* _postHandler
  sent,          \* the datagrams sent on _udp by the last doSSDP, in order
  last,          \* the packets the last doSSDP read from each socket
  faults         \* the datagrams of a tick for which beginPacket and endPacket fail

\* SSDP::searchRequest, one call of it
VARIABLES
  pc,            \* where the call stands: off, call, begin, send, listen, returned
  call,          \* its arguments ST, ssdpAll and timeout
  txnBuffer,     \* char txnBuffer[SSDP_BUFFER_SIZE] as a C string
  result,        \* SSDPResult result
  now,           \* millis()
  timeStamp,     \* long timeStamp
  done,          \* boolean done
  inbox,         \* datagrams pending on the local WiFiUDP udp of the call
  wire,          \* datagrams the call has sent to 239.255.255.250:1900
  handled,       \* the datagrams handed to the SSDPHandler, in order
  trace          \* what the last pass of the receive loop did

\* UPnPBuffer, one object and one lookup on it
VARIABLES
  lines,         \* the header lines the packet text was written from, in order
  body,          \* the lines written after the empty line of the packet, in order
  buff,          \* the UPnPBuffer object: _buffer and _maxLen
  query,         \* the arguments of the lookup: header, buffer (its content before) and len
  answer         \* <<>> before the lookup, then its result with the content of
                 \* buffer, and the indices of buffer[] it has stored into

svars == <<root, net, mUdp, udp, postHandler, sent, last, faults>>
cvars == <<pc, call, txnBuffer, result, now, timeStamp, done, inbox, wire, handled, trace>>
bvars == <<lines, body, buff, query, answer>>
vars == <<svars, cvars, bvars>>

\* bound, begun, ended: what udp.begin, beginPacketMulticast and endPacket
\* answered (-1: not called); listened, start: whether and when the receive loop was entered;
\* arrived, lastArrival: datagrams that reached the socket and when the last
\* of them did; pkt, reset, handed: the
\* datagram the last pass read, whether it reset timeStamp, whether it was
\* handed to the handler
NoTrace ==
  [bound |-> -1, begun |-> -1, ended |-> -1, listened |-> FALSE, start |-> 0,
   arrived |-> 0, lastArrival |-> 0, pkt |-> <<>>, reset |-> FALSE, handed |-> FALSE]

\* no searchRequest is running
ClientOff ==
  /\ pc = "off"
  /\ call = [ST |-> "", ssdpAll |-> FALSE, timeout |-> 0]
  /\ txnBuffer = ""
  /\ result = SSDP_OK
  /\ now = 0
  /\ timeStamp = 0
  /\ done = FALSE
  /\ inbox = <<>>
  /\ wire = <<>>
  /\ handled = <<>>
  /\ trace = NoTrace

\* no UPnPBuffer under study
BufferOff ==
  /\ lines = <<>>
  /\ body = <<>>
  /\ buff = UPnPBuffer("")
  /\ query = [fn |-> "", header |-> "", buffer |-> "", len |-> 0]
  /\ answer = <<>>

\* SSDP::begin(root): both sockets open, nothing read, nothing sent
Init ==
  /\ root \in Trees
  /\ net \in {<<>>} \cup {<<p>> : p \in Packets}
  /\ mUdp = <<>>
  /\ udp = <<>>
  /\ postHandler = NopHandler
  /\ sent = <<>>
  /\ last = [m |-> <<>>, u |-> <<>>]
  /\ faults = NoFaults
  /\ ClientOff
  /\ BufferOff

\* the network delivers a datagram to the multicast socket
DeliverMulticast ==
  /\ net # <<>>
  /\ mUdp' = Append(mUdp, Head(net))
  /\ net' = Tail(net)
  /\ UNCHANGED <<root, udp, postHandler, sent, last, faults>>
  /\ UNCHANGED <<cvars, bvars>>

\* the network delivers a datagram to the unicast socket
DeliverUnicast ==
  /\ net # <<>>
  /\ udp' = Append(udp, Head(net))
  /\ net' = Tail(net)
  /\ UNCHANGED <<root, mUdp, postHandler, sent, last, faults>>
  /\ UNCHANGED <<cvars, bvars>>

\* SSDP::doSSDP: doChannel(_mUdp) then doChannel(_udp)
doSSDP ==
  \E m \in {doChannel(root, mUdp, postHandler, "m")} :
    \E u \in {doChannel(root, udp, m.handler, "u")} :
      /\ mUdp' = m.queue
      /\ udp' = u.queue
      /\ postHandler' = u.handler
      /\ sent' = sendAll(m.out \o u.out, faults)
      /\ last' = [m |-> m.read, u |-> u.read]
      /\ UNCHANGED <<root, net, faults>>
      /\ UNCHANGED <<cvars, bvars>>

Next == DeliverMulticast \/ DeliverUnicast \/ doSSDP

Spec == Init /\ [][Next]_vars

\* ------------------------------------------------------------------------
\* The server with several datagrams pending and with sends that fail
\* ------------------------------------------------------------------------
MaxPending == 3

\* a plain root search, an expanded one from the soft-AP side, a search
\* without gate header
TickPackets ==
  { Packet([line1 |-> M_SEARCH_LINE, st |-> <<ST_UPNP_ROOTDEVICE>>, gate |-> <<"">>], PeerLAN),
    Packet([line1 |-> M_SEARCH_LINE, st |-> <<ST_UPNP_ROOTDEVICE>>, gate |-> <<SSDP_ALL>>], PeerAP),
    Packet([line1 |-> M_SEARCH_LINE, st |-> <<ST_UUID \o DevUUID(1)>>, gate |-> <<>>], PeerLAN) }

\* every send succeeds; the first datagram of a tick cannot be sent at all;
\* endPacket fails for the second and the third
FaultSchedules ==
  { NoFaults, [begin |-> {1}, end |-> {1}], [begin |-> {}, end |-> {2, 3}] }

TickInit ==
  /\ root = SmallTree
  /\ net \in UNION {[1..n -> TickPackets] : n \in 0..MaxPending}
  /\ mUdp = <<>>
  /\ udp = <<>>
  /\ postHandler = NopHandler
  /\ sent = <<>>
  /\ last = [m |-> <<>>, u |-> <<>>]
  /\ faults \in FaultSchedules
  /\ ClientOff
  /\ BufferOff

TickSpec == TickInit /\ [][Next]_vars

\* ------------------------------------------------------------------------
\* The server on a tree with a node whose parentAsDevice() is NULL
\* ------------------------------------------------------------------------
\* SmallTree with S2 listed by D1 while S2 has no parent, and SmallTree with
\* D1 listed by the root while D1 has no parent
OrphanTrees ==
  { [SmallTree EXCEPT !.orphans = {SvcPtr(1, 1)}],
    [SmallTree EXCEPT !.orphans = {DevPtr(1)}] }

OrphanInit ==
  /\ root \in OrphanTrees
  /\ net \in {<<>>} \cup {<<p>> : p \in Packets}
  /\ mUdp = <<>>
  /\ udp = <<>>
  /\ postHandler = NopHandler
  /\ sent = <<>>
  /\ last = [m |-> <<>>, u |-> <<>>]
  /\ faults = NoFaults
  /\ ClientOff
  /\ BufferOff

OrphanSpec == OrphanInit /\ [][Next]_vars

\* ------------------------------------------------------------------------
\* The query client: SSDP::searchRequest(ST, handler, ifc, timeout, ssdpAll)
\* ------------------------------------------------------------------------
SEARCH_HEAD == "M-SEARCH * HTTP/1.1" \o CRLF \o "HOST: 239.255.255.250:1900" \o CRLF
               \o "MAN: ssdp:discover" \o CRLF
USER_AGENT == "USER-AGENT: ESP8266 UPnP/1.1 LSC-SSDP/1.0" \o CRLF \o CRLF
SSDP_RootSearch ==
  SEARCH_HEAD \o "ST: upnp:rootdevice" \o CRLF \o "ST.LEELANAUSOFTWARE.COM: " \o CRLF
  \o USER_AGENT
SSDP_RootAllSearch ==
  SEARCH_HEAD \o "ST: upnp:rootdevice" \o CRLF \o "ST.LEELANAUSOFTWARE.COM: ssdp:all" \o CRLF
  \o USER_AGENT
SSDP_Search(st) ==
  SEARCH_HEAD \o "ST: " \o st \o CRLF \o "ST.LEELANAUSOFTWARE.COM: ssdp:all" \o CRLF
  \o USER_AGENT

\* a choice of request text that knows upnp:rootdevice by its first 15
\* characters, as readChannel does
searchText_Prefix(st, all) ==
  IF strncmpEq(st, ST_UPNP_ROOTDEVICE, 15)
  THEN [result |-> SSDP_OK,
        txnBuffer |-> snprintf(SSDP_BUFFER_SIZE,
                               IF all THEN SSDP_RootAllSearch ELSE SSDP_RootSearch)]
  ELSE IF strncmpEq(st, ST_UUID, 5)
  THEN [result |-> SSDP_OK, txnBuffer |-> snprintf(SSDP_BUFFER_SIZE, SSDP_Search(st))]
  ELSE IF strncmpEq(st, ST_TYPE, 4)
  THEN [result |-> SSDP_OK, txnBuffer |-> snprintf(SSDP_BUFFER_SIZE, SSDP_Search(st))]
  ELSE [result |-> SSDP_ERR_ST, txnBuffer |-> ""]

\* a request text that asks every node of a root to answer, whatever ssdpAll
searchText_AlwaysAll(st, all) ==
  IF st = ST_UPNP_ROOTDEVICE
  THEN [result |-> SSDP_OK, txnBuffer |-> snprintf(SSDP_BUFFER_SIZE, SSDP_RootAllSearch)]
  ELSE IF strncmpEq(st, ST_UUID, 5) \/ strncmpEq(st, ST_TYPE, 4)
  THEN [result |-> SSDP_OK, txnBuffer |-> snprintf(SSDP_BUFFER_SIZE, SSDP_Search(st))]
  ELSE [result |-> SSDP_ERR_ST, txnBuffer |-> ""]

\* the first statement of searchRequest: the request text and the result
searchText(st, all) ==
  IF st = ST_UPNP_ROOTDEVICE
  THEN [result |-> SSDP_OK,
        txnBuffer |-> snprintf(SSDP_BUFFER_SIZE,
                               IF all THEN SSDP_RootAllSearch ELSE SSDP_RootSearch)]
  ELSE IF strncmpEq(st, ST_UUID, 5)
  THEN [result |-> SSDP_OK, txnBuffer |-> snprintf(SSDP_BUFFER_SIZE, SSDP_Search(st))]
  ELSE IF strncmpEq(st, ST_TYPE, 4)
  THEN [result |-> SSDP_OK, txnBuffer |-> snprintf(SSDP_BUFFER_SIZE, SSDP_Search(st))]
  ELSE [result |-> SSDP_ERR_ST, txnBuffer |-> ""]

\* if( ok != 1 ) result = SSDP_ERR_UDP after beginPacketMulticast
beginResult(res, ok) == IF ok # 1 THEN SSDP_ERR_UDP ELSE res

\* an endPacket whose answer is not looked at
endResult_Ignored(res, ok) == res

\* if( ok != 1 ) result = SSDP_ERR_SEND after endPacket
endResult(res, ok) == IF ok # 1 THEN SSDP_ERR_SEND ELSE res

\* a loop test that waits for twice the timeout
listening_Twice(millis, stamp, tmo, d) == (millis - stamp < 2 * tmo) /\ ~d

\* a loop test that still passes at the deadline
listening_Late(millis, stamp, tmo, d) == (millis - stamp <= tmo) /\ ~d

\* (millis() - timeStamp < timeout) && !done
listening(millis, stamp, tmo, d) == (millis - stamp < tmo) /\ ~d

\* a receive loop that hands over every search response with an ST header
receive_AnyST(text, st) ==
  LET upnpBuff  == UPnPBuffer(text)
      st_header == headerValue(upnpBuff, ST_HEADER, "", ST_HEADER_SIZE)
  IN  IF isSearchResponse(upnpBuff)
      THEN [reset  |-> TRUE,
            handed |-> st_header.result /\ displayName(upnpBuff, NAME_SIZE).result]
      ELSE [reset |-> FALSE, handed |-> FALSE]

\* a receive loop that does not look at the DESC header
receive_AnyDesc(text, st) ==
  LET upnpBuff  == UPnPBuffer(text)
      st_header == headerValue(upnpBuff, ST_HEADER, "", ST_HEADER_SIZE)
  IN  IF isSearchResponse(upnpBuff)
      THEN [reset  |-> TRUE,
            handed |-> st_header.result /\ st_header.buffer = st]
      ELSE [reset |-> FALSE, handed |-> FALSE]

\* a receive loop that resets timeStamp only for what it hands over
receive_ResetOnHanded(text, st) ==
  LET upnpBuff  == UPnPBuffer(text)
      st_header == headerValue(upnpBuff, ST_HEADER, "", ST_HEADER_SIZE)
      handed    == /\ isSearchResponse(upnpBuff)
                   /\ st_header.result
                   /\ st_header.buffer = st
                   /\ displayName(upnpBuff, NAME_SIZE).result
  IN  [reset |-> handed, handed |-> handed]

\* the body of the receive loop for a packet read into txnBuffer: whether
\* timeStamp is reset and whether the handler is called
receive(text, st) ==
  LET upnpBuff  == UPnPBuffer(text)
      st_header == headerValue(upnpBuff, ST_HEADER, "", ST_HEADER_SIZE)
  IN  IF isSearchResponse(upnpBuff)
      THEN [reset  |-> TRUE,
            handed |-> /\ st_header.result
                       /\ st_header.buffer = st
                       /\ displayName(upnpBuff, NAME_SIZE).result]
      ELSE [reset |-> FALSE, handed |-> FALSE]

\* the arguments of the calls
SearchTargets ==
  {ST_UPNP_ROOTDEVICE, ST_UUID \o RootUUID, GetDateTimeType, LongType,
   SSDP_ALL, ST_UPNP_ROOTDEVICE \o "-x", ""}
LONG_TIMEOUT == 150
SHORT_TIMEOUT == 100
Calls ==
  {[ST |-> st, ssdpAll |-> FALSE, timeout |-> LONG_TIMEOUT] : st \in SearchTargets}
  \cup {[ST |-> st, ssdpAll |-> TRUE, timeout |-> SHORT_TIMEOUT] :
          st \in {ST_UPNP_ROOTDEVICE, ST_UUID \o RootUUID, GetDateTimeType, SSDP_ALL}}

\* the datagrams that reach the socket of a call for st.  A datagram is built
\* from its first line, its ST value and its DESC value; <<>> stands for an
\* absent header line.
FullDesc == ":name:Device Test:devices:1:services:1:"
ResponseData(line1, st, desc) ==
  line1 \o CRLF
  \o "LOCATION: http://10.0.0.165:80/" \o CRLF
  \o HeaderLineOf(ST_HEADER, st)
  \o "USN: uuid:" \o RootUUID \o "::" \o RootType \o CRLF
  \o HeaderLineOf(DESC_LSC_HEADER, desc)
  \o CRLF
Reply(line1, st, desc) ==
  [data |-> ResponseData(line1, st, desc),
   resp |-> [line1 |-> line1, st |-> st, desc |-> desc]]
Replies(st) ==
  {Reply(RESPONSE_LINE, <<st>>, d) :
     d \in {<<>>, <<FullDesc>>, <<":devices:1:services:1:">>, <<":name::devices:1:">>}}
  \cup {Reply(RESPONSE_LINE, v, <<FullDesc>>) : v \in {<<>>, <<st \o "x">>, <<UnknownType>>}}
  \cup {Reply(NOTIFY_LINE, <<st>>, <<FullDesc>>)}

\* a sketch calls searchRequest
SearchInit ==
  /\ root = SmallTree
  /\ net = <<>>
  /\ mUdp = <<>>
  /\ udp = <<>>
  /\ postHandler = NopHandler
  /\ sent = <<>>
  /\ last = [m |-> <<>>, u |-> <<>>]
  /\ faults = NoFaults
  /\ pc = "call"
  /\ call \in Calls
  /\ txnBuffer = ""
  /\ result = SSDP_OK
  /\ now = 0
  /\ timeStamp = 0
  /\ done = FALSE
  /\ inbox = <<>>
  /\ wire = <<>>
  /\ handled = <<>>
  /\ trace = NoTrace
  /\ BufferOff

\* the request text is chosen from ST, or the call fails with SSDP_ERR_ST
BuildRequest ==
  /\ pc = "call"
  /\ \E r \in {searchText(call.ST, call.ssdpAll)} :
       /\ result' = r.result
       /\ txnBuffer' = r.txnBuffer
       /\ pc' = IF r.result = SSDP_OK THEN "begin" ELSE "returned"
  /\ UNCHANGED <<call, now, timeStamp, done, inbox, wire, handled, trace>>
  /\ UNCHANGED <<svars, bvars>>

\* what udp.begin(0) may answer: 1, and 0 when no port can be bound; the
\* failure is followed in the calls with ssdpAll set
BindAnswers(c) == IF c.ssdpAll THEN {0, 1} ELSE {1}

\* udp.begin(0), which answers bound and whose answer is not looked at, and
\* udp.beginPacketMulticast(...), which answers ok
BeginPacket ==
  /\ pc = "begin"
  /\ \E bound \in BindAnswers(call) : \E ok \in {0, 1} :
       /\ result' = beginResult(result, ok)
       /\ trace' = [trace EXCEPT !.bound = bound, !.begun = ok]
  /\ pc' = IF result' = SSDP_OK THEN "send" ELSE "returned"
  /\ UNCHANGED <<call, txnBuffer, now, timeStamp, done, inbox, wire, handled>>
  /\ UNCHANGED <<svars, bvars>>

\* udp.write, udp.endPacket(), which answers ok, delay(500), and the start
\* of listening: timeStamp = millis(), done = false
EndPacket ==
  /\ pc = "send"
  /\ now' = now + SEND_DELAY
  /\ \E ok \in {0, 1} :
       /\ result' = endResult(result, ok)
       /\ wire' = IF ok = 1 THEN Append(wire, txnBuffer) ELSE wire
       /\ trace' = IF result' = SSDP_OK
                   THEN [trace EXCEPT !.ended = ok, !.listened = TRUE, !.start = now']
                   ELSE [trace EXCEPT !.ended = ok]
  /\ pc' = IF result' = SSDP_OK THEN "listen" ELSE "returned"
  /\ timeStamp' = IF result' = SSDP_OK THEN now' ELSE timeStamp
  /\ done' = FALSE
  /\ UNCHANGED <<call, txnBuffer, inbox, handled>>
  /\ UNCHANGED <<svars, bvars>>

\* a datagram reaches the socket of the call
Arrive ==
  /\ pc = "listen"
  /\ trace.arrived < MaxArrivals
  /\ \E r \in Replies(call.ST) : inbox' = Append(inbox, r)
  /\ trace' = [trace EXCEPT !.arrived = @ + 1, !.lastArrival = now]
  /\ UNCHANGED <<pc, call, txnBuffer, result, now, timeStamp, done, wire, handled>>
  /\ UNCHANGED <<svars, bvars>>

\* one pass of while( (millis() - timeStamp < timeout) && !done ): the test,
\* and either udp.stop() and the return, or the body and delay(100)
Listen ==
  /\ pc = "listen"
  /\ IF listening(now, timeStamp, call.timeout, done)
     THEN /\ IF inbox # <<>>
             THEN \E r \in {receive(Take(Head(inbox).data, SSDP_BUFFER_SIZE), call.ST)} :
                    /\ txnBuffer' = Take(Head(inbox).data, SSDP_BUFFER_SIZE)
                    /\ inbox' = Tail(inbox)
                    /\ timeStamp' = IF r.reset THEN now ELSE timeStamp
                    /\ handled' = IF r.handed THEN Append(handled, Head(inbox)) ELSE handled
                    /\ trace' = [trace EXCEPT !.pkt = <<Head(inbox)>>, !.reset = r.reset,
                                              !.handed = r.handed]
             ELSE /\ trace' = [trace EXCEPT !.pkt = <<>>, !.reset = FALSE, !.handed = FALSE]
                  /\ UNCHANGED <<txnBuffer, inbox, timeStamp, handled>>
          /\ now' = now + POLL_DELAY
          /\ UNCHANGED <<pc, call, result, done, wire>>
     ELSE /\ pc' = "returned"
          /\ inbox' = <<>>
          /\ UNCHANGED <<call, txnBuffer, result, now, timeStamp, done, wire, handled, trace>>
  /\ UNCHANGED <<svars, bvars>>

SearchNext == BuildRequest \/ BeginPacket \/ EndPacket \/ Arrive \/ Listen

SearchSpec == SearchInit /\ [][SearchNext]_vars

\* ------------------------------------------------------------------------
\* UPnPBuffer::headerValue on packets written from header lines
\* ------------------------------------------------------------------------
MaxLines == 2

\* A line of a packet is written from the spaces before its name, the name,
\* the separator (the first ':' of the line is in it, when the line has
\* one), the value without spaces at its ends, and the spaces after the
\* value.
Line(lead, name, sep, value, trail) ==
  [lead |-> lead, name |-> name, sep |-> sep, value |-> value, trail |-> trail]
LineText(l) == l.lead \o l.name \o l.sep \o l.value \o l.trail \o CRLF

RECURSIVE LinesText(_)
LinesText(ls) == IF ls = <<>> THEN "" ELSE LineText(Head(ls)) \o LinesText(Tail(ls))

\* the packet text: its lines, then the empty line
PacketText(ls) == LinesText(ls) \o CRLF

\* "HTTP/1.1 200 OK " as a line
StatusLine == Line("", RESPONSE_HEADER, " ", "200 OK", " ")

\* the header lines as the templates write them: name, ": ", value; the
\* value may be empty as in the ST.LEELANAUSOFTWARE.COM line of
\* SSDP_RootSearch
HeaderNames == {ST_HEADER, USN_HEADER, ST_LSC_HEADER}
HeaderValues == {"", SSDP_ALL, ST_UUID \o RootUUID}
PlainLines ==
  {Line("", ST_HEADER, ": ", v, "") : v \in HeaderValues}
  \cup {Line("", USN_HEADER, ": ", v, "") : v \in {"", SSDP_ALL}}
  \cup {Line("", ST_LSC_HEADER, ": ", SSDP_ALL, "")}

\* lines a peer may write otherwise: no space or several spaces after the
\* colon, spaces after the value, a space before the colon, no colon at all,
\* a name in lower case, a name that ends with the name asked for, spaces
\* before the name
OddLines ==
  { Line("", ST_HEADER, ":", SSDP_ALL, ""),
    Line("", ST_HEADER, ":   ", SSDP_ALL, "  "),
    Line("", ST_HEADER, " : ", SSDP_ALL, ""),
    Line("", ST_HEADER, " ", "none", ""),
    Line("", "st", ": ", SSDP_ALL, ""),
    Line("", "HOST", ": ", "239.255.255.250:1900", ""),
    Line(" ", ST_HEADER, ": ", SSDP_ALL, ""),
    Line("   ", USN_HEADER, ": ", ST_UUID \o RootUUID, "") }

HeaderLines == PlainLines \cup OddLines

\* packets of up to MaxLines header lines, with and without status line
LineSeqs ==
  LET seqs == UNION {[1..n -> HeaderLines] : n \in 0..MaxLines}
  IN  seqs \cup {<<StatusLine>> \o ls : ls \in seqs}

\* packets with text after the empty line: fewer than MaxLines of the
\* template's header lines, with and without status line, then the empty
\* line, then one more line
HeadSeqs ==
  LET seqs == UNION {[1..n -> PlainLines] : n \in 0..(MaxLines - 1)}
  IN  seqs \cup {<<StatusLine>> \o ls : ls \in seqs}
BodySeqs == {<<l>> : l \in HeaderLines}

\* the lookups of readChannel and searchRequest: ST into st_header,
\* and one into a buffer of ST_LSC_HEADER_SIZE bytes
Queries ==
  [fn : {"headerValue"}, header : {ST_HEADER, USN_HEADER}, buffer : {""},
   len : {1, ST_LSC_HEADER_SIZE, ST_HEADER_SIZE}]

\* the DESC values of the responses a call may read, each with the name it
\* carries (<<>> when it carries none): a root's, one without :name:, one
\* with an empty name, one whose name is not closed by ':', one whose name
\* does not fit in name[NAME_SIZE]
LongName == Pad(NAME_SIZE + 8)
DescCases ==
  { [value |-> ":name:Device Test:devices:1:services:1:", dname |-> <<"Device Test">>],
    [value |-> ":devices:1:services:1:", dname |-> <<>>],
    [value |-> ":name::devices:1:services:1:", dname |-> <<"">>],
    [value |-> ":name:Device Test", dname |-> <<>>],
    [value |-> ":name:" \o LongName \o ":services:0:puuid:" \o RootUUID \o ":",
     dname |-> <<LongName>>] }
DescLine(c) == Line("", DESC_LSC_HEADER, ": ", c.value, "")

\* responses with and without DESC line
DescSeqs ==
  {<<StatusLine, Line("", ST_HEADER, ": ", ST_UPNP_ROOTDEVICE, "")>>}
  \cup {<<StatusLine, Line("", ST_HEADER, ": ", ST_UPNP_ROOTDEVICE, ""), DescLine(c)>> :
          c \in DescCases}
  \cup {<<StatusLine, DescLine(c), Line("", USN_HEADER, ": ", ST_UUID \o RootUUID, "")>> :
          c \in DescCases}

\* displayName(name, 32) of searchRequest, and one into a buffer the name
\* Device Test fills to its last byte
NameQueries ==
  [fn : {"displayName"}, header : {DESC_LSC_HEADER}, buffer : {""},
   len : {1, Len("Device Test") + 1, NAME_SIZE}]

\* a line without the spaces before its name and without its EOL
LineBody(l) == l.name \o l.sep \o l.value \o l.trail

\* the position in _buffer of the first non-blank byte of the k-th line of
\* the packet written from ls; line Len(ls) + 1 is the empty line and
\* "line" Len(ls) + 2 is the end of the text
RECURSIVE StartOf(_, _)
StartOf(ls, k) == IF k = 1 THEN 1 ELSE StartOf(ls, k - 1) + Len(LineText(ls[k - 1]))
LeadOf(ls, k) == IF k <= Len(ls) THEN Len(ls[k].lead) ELSE 0
CursorAt(ls, k) ==
  IF k = Len(ls) + 2 THEN Len(PacketText(ls)) + 1 - LeadOf(ls, 1)
  ELSE StartOf(ls, k) + LeadOf(ls, k) - LeadOf(ls, 1)

\* getNextLine(lineStart, buffer, bufferLen) with lineStart at a line of the
\* packet or at its end, into a buffer shorter than some lines and into one
\* longer than all
LineQueries(ls) ==
  {[fn |-> "getNextLine", header |-> "", buffer |-> "", len |-> n,
    line |-> k, cursor |-> CursorAt(ls, k)] :
      k \in 1..(Len(ls) + 2), n \in {ST_LSC_HEADER_SIZE, ST_HEADER_SIZE}}

\* no datagram, no call: the SSDP object is left alone
ServerIdle ==
  /\ root = SmallTree
  /\ net = <<>>
  /\ mUdp = <<>>
  /\ udp = <<>>
  /\ postHandler = NopHandler
  /\ sent = <<>>
  /\ last = [m |-> <<>>, u |-> <<>>]
  /\ faults = NoFaults

\* UPnPBuffer upnpBuff = UPnPBuffer(txnBuffer) on a packet
BufferInit ==
  /\ ServerIdle
  /\ ClientOff
  /\ \/ lines \in LineSeqs /\ body = <<>> /\ query \in Queries
     \/ lines \in DescSeqs /\ body = <<>> /\ query \in NameQueries
     \/ lines \in LineSeqs /\ body = <<>> /\ query \in LineQueries(lines)
     \/ lines \in HeadSeqs /\ body \in BodySeqs /\ query \in Queries
  /\ buff = UPnPBuffer(PacketText(lines) \o LinesText(body))
  /\ answer = <<>>

\* upnpBuff.headerValue(header, buffer, len)
Lookup ==
  /\ answer = <<>>
  /\ query.fn = "headerValue"
  /\ answer' = <<headerValue(buff, query.header, query.buffer, query.len),
               headerWrites(buff, query.header, 1, query.len)>>
  /\ UNCHANGED <<lines, body, buff, query>>
  /\ UNCHANGED <<svars, cvars>>

\* upnpBuff.displayName(buffer, len)
Name ==
  /\ answer = <<>>
  /\ query.fn = "displayName"
  /\ answer' = <<displayName(buff, query.len), nameWrites(buff, query.len)>>
  /\ UNCHANGED <<lines, body, buff, query>>
  /\ UNCHANGED <<svars, cvars>>

\* getNextLine(lineStart, buffer, bufferLen)
NextLine ==
  /\ answer = <<>>
  /\ query.fn = "getNextLine"
  /\ answer' = <<getNextLine(buff, query.cursor, query.len)>>
  /\ UNCHANGED <<lines, body, buff, query>>
  /\ UNCHANGED <<svars, cvars>>

BufferNext == Lookup \/ Name \/ NextLine

BufferSpec == BufferInit /\ [][BufferNext]_vars

\* ------------------------------------------------------------------------
\* A call that has sent its request, with one datagram on its socket
\* ------------------------------------------------------------------------

\* the response to st whose datagram has n bytes, the name filling it up
SizedReply(st, n) ==
  LET base == Len(ResponseData(RESPONSE_LINE, <<st>>, <<":name::">>))
  IN  Reply(RESPONSE_LINE, <<st>>, <<":name:" \o Pad(n - base) \o ":">>)

\* the sizes around the size of txnBuffer
ReplySizes == {SSDP_BUFFER_SIZE + k : k \in -3..3}

\* the calls that send a request
ValidCalls == {c \in Calls : searchText(c.ST, c.ssdpAll).result = SSDP_OK}

ReadInit ==
  /\ ServerIdle
  /\ BufferOff
  /\ pc = "listen"
  /\ call \in ValidCalls
  /\ txnBuffer = searchText(call.ST, call.ssdpAll).txnBuffer
  /\ result = SSDP_OK
  /\ now = SEND_DELAY
  /\ timeStamp = SEND_DELAY
  /\ done = FALSE
  /\ inbox \in {<<Reply(RESPONSE_LINE, <<call.ST>>, <<FullDesc>>)>>}
               \cup {<<SizedReply(call.ST, n)>> : n \in ReplySizes}
  /\ wire = <<txnBuffer>>
  /\ handled = <<>>
  /\ trace = [NoTrace EXCEPT !.bound = 1, !.begun = 1, !.ended = 1, !.listened = TRUE,
                             !.start = SEND_DELAY, !.arrived = 1,
                             !.lastArrival = SEND_DELAY]

ReadNext == Listen

ReadSpec == ReadInit /\ [][ReadNext]_vars

\* ------------------------------------------------------------------------
\* Vocabulary of the properties
\* ------------------------------------------------------------------------
Channels == {"m", "u"}

\* the last doSSDP read a packet from channel ch
ReadOn(ch) == last[ch] # <<>>
\* what that packet was built from
ReqOn(ch) == last[ch][1].req
\* the datagrams the last doSSDP emitted for the packet read from channel ch
BatchOf(ch) ==
  LET own == SelectSeq(sent, LAMBDA e : e.ch = ch)
  IN  [i \in 1..Len(own) |-> own[i].dgram]
NodesOf(batch) == [i \in 1..Len(batch) |-> batch[i].node]

BeginsWith(s, prefix) == Len(s) >= Len(prefix) /\ SubSeq(s, 1, Len(prefix)) = prefix

\* an M-SEARCH read from ch that carries the gate header and the ST value st
GatedSearch(ch) ==
  /\ ReadOn(ch)
  /\ ReqOn(ch).line1 = M_SEARCH_LINE
  /\ ReqOn(ch).gate # <<>>
  /\ ReqOn(ch).st # <<>>
STOf(ch) == ReqOn(ch).st[1]
GateOf(ch) == ReqOn(ch).gate[1]
WantsAll(ch) == BeginsWith(GateOf(ch), "ssdp:all")

\* the lines of a datagram, without their CRLF
RECURSIVE LinesOf(_)
LinesOf(s) ==
  LET le == strstr(s, 1, CRLF)
  IN  IF le = 0 THEN (IF s = "" THEN <<>> ELSE <<s>>)
      ELSE <<SubSeq(s, 1, le - 1)>> \o LinesOf(SubSeq(s, le + 2, Len(s)))

\* the datagram has exactly one line of header name, and it reads "name: value"
HasHeader(data, name, value) ==
  LET ls == LinesOf(data)
      at == {i \in 1..Len(ls) : BeginsWith(ls[i], name \o ":")}
  IN  /\ Cardinality(at) = 1
      /\ \A i \in at : ls[i] = name \o ": " \o value

\* the embedded-device blocks 1..n of the tree, each device followed by its services
RECURSIVE DeviceBlocks(_, _)
DeviceBlocks(t, n) ==
  IF n = 0 THEN <<>>
  ELSE DeviceBlocks(t, n - 1) \o <<DevPtr(n)>>
       \o [j \in 1..Len(t.devices[n].services) |-> SvcPtr(n, j)]

\* the nodes answering an expanded search for device d, in the documented order
ExpandedOrder(t, d) ==
  IF d = RootPtr
  THEN <<RootPtr>> \o [j \in 1..Len(t.services) |-> SvcPtr(0, j)]
       \o DeviceBlocks(t, Len(t.devices))
  ELSE <<d>> \o [j \in 1..Len(t.devices[d.dev].services) |-> SvcPtr(d.dev, j)]

AllNodes(t) == {ExpandedOrder(t, RootPtr)[i] : i \in 1..Len(ExpandedOrder(t, RootPtr))}
DeviceNodes(t) == {DevPtr(i) : i \in 0..Len(t.devices)}
TypeOfNode(t, n) ==
  IF n.svc # 0
  THEN (IF n.dev = 0 THEN t.services[n.svc].type ELSE t.devices[n.dev].services[n.svc].type)
  ELSE (IF n.dev = 0 THEN t.type ELSE t.devices[n.dev].type)
UuidOfDevice(t, n) == IF n.dev = 0 THEN t.uuid ELSE t.devices[n.dev].uuid
NameOfDevice(t, n) == IF n.dev = 0 THEN t.name ELSE t.devices[n.dev].name

\* the nodes of seq whose type string equals st, in the order of seq
Matching(t, seq, st) == SelectSeq(seq, LAMBDA n : TypeOfNode(t, n) = st)

\* the DESC value shapes of a root and of an embedded device
RootShaped(t, dg) ==
  /\ dg.node = RootPtr
  /\ HasHeader(dg.data, "DESC.LEELANAUSOFTWARE.COM",
               ":name:" \o t.name \o ":devices:" \o IntStr(Len(t.devices))
               \o ":services:" \o IntStr(Len(t.services)) \o ":")
DeviceShaped(t, dg) ==
  /\ dg.node.svc = 0
  /\ dg.node.dev >= 1
  /\ HasHeader(dg.data, "DESC.LEELANAUSOFTWARE.COM",
               ":name:" \o t.devices[dg.node.dev].name \o ":services:"
               \o IntStr(Len(t.devices[dg.node.dev].services)) \o ":puuid:" \o t.uuid \o ":")
DeviceStyle(t, dg) == IF dg.node = RootPtr THEN RootShaped(t, dg) ELSE DeviceShaped(t, dg)

\* ------------------------------------------------------------------------
\* Properties of the server
\* ------------------------------------------------------------------------

\* C1: an M-SEARCH without any gate header line elicits no datagram, whatever
\* its ST value and whatever the device tree.
C1_NoGateNoResponse ==
  \A ch \in Channels :
    (ReadOn(ch) /\ ReqOn(ch).line1 = M_SEARCH_LINE /\ ReqOn(ch).gate = <<>>)
      => BatchOf(ch) = <<>>

\* a root search without gate header was read while the tree has children
C1_Witness ==
  \E ch \in Channels :
    /\ ReadOn(ch)
    /\ ReqOn(ch).line1 = M_SEARCH_LINE
    /\ ReqOn(ch).gate = <<>>
    /\ ReqOn(ch).st = <<ST_UPNP_ROOTDEVICE>>
    /\ Len(root.devices) > 0

\* the ST values the protocol recognizes
RecognizedST(st) ==
  st = "upnp:rootdevice" \/ BeginsWith(st, "uuid:") \/ BeginsWith(st, "urn:")

\* C2: datagrams are emitted for a packet only if it begins with M-SEARCH,
\* carries the gate header and carries an ST header whose value is
\* upnp:rootdevice or starts with uuid: or urn:; nothing is sent otherwise.
C2_OnlyRecognizedSearches ==
  /\ \A i \in 1..Len(sent) : ReadOn(sent[i].ch)
  /\ \A ch \in Channels :
       BatchOf(ch) # <<>> =>
         /\ ReqOn(ch).line1 = M_SEARCH_LINE
         /\ ReqOn(ch).gate # <<>>
         /\ ReqOn(ch).st # <<>>
         /\ RecognizedST(STOf(ch))

\* C3: a root search whose gate value does not begin with ssdp:all yields
\* exactly one datagram, the root-shaped response of the root device.
C3_RootSearchOneResponse ==
  \A ch \in Channels :
    (GatedSearch(ch) /\ STOf(ch) = "upnp:rootdevice" /\ ~WantsAll(ch))
      => /\ Len(BatchOf(ch)) = 1
         /\ RootShaped(root, BatchOf(ch)[1])
         /\ BatchOf(ch)[1].fn = "postDeviceResponse"

\* a plain root search was answered by a root that has devices and services
C3_Witness ==
  \E ch \in Channels :
    /\ GatedSearch(ch) /\ STOf(ch) = "upnp:rootdevice" /\ GateOf(ch) = ""
    /\ Len(root.devices) > 0 /\ Len(root.services) > 0
    /\ Len(sent) = 1

RECURSIVE SumServices(_, _)
SumServices(t, n) ==
  IF n = 0 THEN 0 ELSE SumServices(t, n - 1) + 1 + Len(t.devices[n].services)

\* C4: a root search with gate value ssdp:all yields
\* 1 + root.numServices + sum over the embedded devices of (1 + numServices)
\* datagrams, one for each node of the tree.
C4_RootAllCount ==
  \A ch \in Channels :
    (GatedSearch(ch) /\ STOf(ch) = "upnp:rootdevice" /\ GateOf(ch) = "ssdp:all")
      => /\ Len(BatchOf(ch)) = 1 + Len(root.services) + SumServices(root, Len(root.devices))
         /\ \A n \in AllNodes(root) :
              Cardinality({i \in 1..Len(BatchOf(ch)) : BatchOf(ch)[i].node = n}) = 1

\* an expanded root search was answered by a tree with two embedded devices
\* that have services
C4_Witness ==
  \E ch \in Channels :
    /\ GatedSearch(ch) /\ STOf(ch) = "upnp:rootdevice" /\ GateOf(ch) = "ssdp:all"
    /\ Len(root.devices) = 2 /\ Len(root.devices[2].services) > 0
    /\ Len(sent) >= 5

\* C5: the datagrams of an expanded root search come in the order root, the
\* root's services, then each embedded device followed by its services, all
\* in registration order.
C5_RootAllOrder ==
  \A ch \in Channels :
    (GatedSearch(ch) /\ STOf(ch) = "upnp:rootdevice" /\ GateOf(ch) = "ssdp:all")
      => /\ NodesOf(BatchOf(ch)) = ExpandedOrder(root, RootPtr)
         /\ \A i \in 1..Len(BatchOf(ch)) :
              BatchOf(ch)[i].fn = IF BatchOf(ch)[i].node.svc = 0
                                  THEN "postDeviceResponse" ELSE "postServiceResponse"

\* the scenario tree root(S1, D1(S2)) answered in the order root, S1, D1, S2
C5_Witness ==
  \E ch \in Channels :
    /\ GatedSearch(ch) /\ STOf(ch) = "upnp:rootdevice" /\ GateOf(ch) = "ssdp:all"
    /\ root = SmallTree
    /\ NodesOf(BatchOf(ch)) = <<RootPtr, SvcPtr(0, 1), DevPtr(1), SvcPtr(1, 1)>>

\* the X of an ST value uuid:X
UuidOfST(st) == From(st, SkipSpaces(st, 6))

\* C6: a search for uuid:X, gate present, yields no datagram when no root or
\* embedded device has uuid X.
C6_UuidMissNoResponse ==
  \A ch \in Channels :
    (/\ GatedSearch(ch) /\ BeginsWith(STOf(ch), "uuid:")
     /\ \A d \in DeviceNodes(root) : UuidOfDevice(root, d) # UuidOfST(STOf(ch)))
      => BatchOf(ch) = <<>>

\* an expanded search for a uuid that extends the root's uuid by one
\* character was read
C6_Witness ==
  \E ch \in Channels :
    /\ GatedSearch(ch) /\ STOf(ch) = "uuid:" \o RootUUID \o "0"
    /\ GateOf(ch) = "ssdp:all"
    /\ Len(root.devices) > 0

\* C7: a search for uuid:X where device d has uuid X yields the device-style
\* response of d alone without ssdp:all; with ssdp:all that response is
\* followed by the services of d and, when d is the root, by each embedded
\* device and its services.
C7_UuidHit ==
  \A ch \in Channels : \A d \in DeviceNodes(root) :
    (/\ GatedSearch(ch) /\ BeginsWith(STOf(ch), "uuid:")
     /\ UuidOfDevice(root, d) = UuidOfST(STOf(ch)))
      => /\ BatchOf(ch) # <<>>
         /\ DeviceStyle(root, BatchOf(ch)[1])
         /\ NodesOf(BatchOf(ch)) = IF WantsAll(ch) THEN ExpandedOrder(root, d) ELSE <<d>>
         /\ \A i \in 1..Len(BatchOf(ch)) :
              BatchOf(ch)[i].fn = IF BatchOf(ch)[i].node.svc = 0
                                  THEN "postDeviceResponse" ELSE "postServiceResponse"

\* an expanded search for the uuid of an embedded device that has services
\* was answered
C7_Witness ==
  \E ch \in Channels :
    /\ GatedSearch(ch) /\ STOf(ch) = "uuid:" \o DevUUID(2) /\ GateOf(ch) = "ssdp:all"
    /\ Len(root.devices) >= 2 /\ Len(root.devices[2].services) >= 2
    /\ Len(sent) = 1 + Len(root.devices[2].services)

\* C8 as stated: a search for an ST beginning urn: yields one datagram for
\* each node whose type string equals the ST, in tree order, and none for
\* other nodes.
C8_TypeEqualsST ==
  \A ch \in Channels :
    (GatedSearch(ch) /\ BeginsWith(STOf(ch), "urn:"))
      => NodesOf(BatchOf(ch)) = Matching(root, ExpandedOrder(root, RootPtr), STOf(ch))

\* C8: a search for an ST beginning urn: yields one datagram for each node
\* whose type string equals the first ST_HEADER_SIZE - 1 = 99 characters of
\* the ST (the ST itself when it has at most 99 characters), in tree order,
\* and none for other nodes, the same for every gate value.
C8_TypeSearch ==
  \A ch \in Channels :
    (GatedSearch(ch) /\ BeginsWith(STOf(ch), "urn:"))
      => /\ NodesOf(BatchOf(ch)) =
              Matching(root, ExpandedOrder(root, RootPtr),
                       Take(STOf(ch), ST_HEADER_SIZE - 1))
         /\ \A i \in 1..Len(BatchOf(ch)) :
              BatchOf(ch)[i].fn = IF BatchOf(ch)[i].node.svc = 0
                                  THEN "postDeviceResponse" ELSE "postServiceResponse"

\* a service type search with gate ssdp:all was answered by the services of
\* that type of the root and of an embedded device only
C8_Witness ==
  \E ch \in Channels :
    /\ GatedSearch(ch) /\ STOf(ch) = GetDateTimeType /\ GateOf(ch) = "ssdp:all"
    /\ Len(root.services) = 2 /\ Len(root.devices) = 2
    /\ NodesOf(BatchOf(ch)) = <<SvcPtr(0, 1), SvcPtr(2, 1)>>

\* C9 as stated: every datagram echoes the ST value of its request literally,
\* whatever the length of that value.
C9_EchoesAnyLength ==
  \A ch \in Channels : \A i \in 1..Len(BatchOf(ch)) :
    HasHeader(BatchOf(ch)[i].data, "ST", STOf(ch))

\* C9: every datagram carries an ST header whose value is the ST value of its
\* request cut to its first ST_HEADER_SIZE - 1 = 99 characters, for every node
\* kind that answers; a value of up to 99 characters is echoed literally.
C9_EchoesST ==
  \A ch \in Channels : \A i \in 1..Len(BatchOf(ch)) :
    HasHeader(BatchOf(ch)[i].data, "ST",
              Take(STOf(ch), ST_HEADER_SIZE - 1))

\* a type search with an ST value of 100 characters was answered by a
\* service
C9_Witness ==
  \E ch \in Channels :
    /\ GatedSearch(ch) /\ STOf(ch) = LongType \o "x"
    /\ NodesOf(BatchOf(ch)) = <<SvcPtr(1, 1)>>

\* C10: the USN of every response is uuid:<device uuid>::<type of the
\* answering node>, with the device's own uuid for a device response and the
\* parent device's uuid for a service response.
C10_USN ==
  \A i \in 1..Len(sent) :
    LET n == sent[i].dgram.node
    IN  HasHeader(sent[i].dgram.data, "USN",
                  "uuid:" \o UuidOfDevice(root, DevPtr(n.dev)) \o "::" \o TypeOfNode(root, n))

\* the DESC value shape of a service
ServiceShaped(t, dg) ==
  /\ dg.node.svc # 0
  /\ HasHeader(dg.data, "DESC.LEELANAUSOFTWARE.COM",
               ":name:" \o SvcOf(t, dg.node).name
               \o ":puuid:" \o UuidOfDevice(t, DevPtr(dg.node.dev)) \o ":")

InterfaceOf(peer) ==
  IF And32(peer, subnet) = And32(local_IP, subnet) THEN local_IP
  ELSE IF And32(peer, subnet) = And32(softAP_IP, subnet) THEN softAP_IP
  ELSE INADDR_ANY

\* the LOCATION of node n formatted against interface ifc
LocationOf(t, n, ifc) ==
  IF n = RootPtr THEN rootLocation(t, LOC_BUFF_SIZE, ifc)
  ELSE location(t, n, LOC_BUFF_SIZE, ifc)

\* C12: the LOCATION of every response is formatted against the interface
\* on whose subnet the requester's address lies: the infrastructure address
\* when (peer AND mask) = (localIP AND mask), else the soft-AP address when
\* (peer AND mask) = (softAPIP AND mask), else 0.0.0.0.
C12_LocationBySubnet ==
  \A i \in 1..Len(sent) :
    LET dg == sent[i].dgram
    IN  /\ interfaceAddress(dg.remoteAddr) = InterfaceOf(dg.remoteAddr)
        /\ HasHeader(dg.data, "LOCATION",
                     LocationOf(root, dg.node, InterfaceOf(dg.remoteAddr)))

\* ------------------------------------------------------------------------
\* Properties of the query client
\* ------------------------------------------------------------------------

\* the pass of the receive loop that has just ended read a datagram
Polled == pc = "listen" /\ trace.pkt # <<>>
\* what that datagram was built from
PolledResp == trace.pkt[1].resp
\* the datagram is a search response: it begins with HTTP/1.1
IsResponse(resp) == BeginsWith(resp.line1, "HTTP/1.1")
\* the text between ":name:" and the next ':' of a DESC value, "" without one
NameIn(desc) ==
  LET start == strstr(desc, 1, ":name:")
      end   == IF start = 0 THEN 0 ELSE strstr(desc, start + 6, ":")
  IN  IF start = 0 \/ end = 0 THEN "" ELSE SubSeq(desc, start + 6, end - 1)
\* the datagram carries a DESC header with a non-empty name
HasName(resp) == resp.desc # <<>> /\ NameIn(resp.desc[1]) # ""
\* the ST value of the ask of the call
IsValidTarget(st) ==
  st = "upnp:rootdevice" \/ BeginsWith(st, "uuid:") \/ BeginsWith(st, "urn:")

\* C13 as stated: the handler is never invoked for a datagram whose ST value
\* differs from the requested ST, that has no ST header or that is not a
\* search response.
C13_OnlyRequestedST ==
  \A i \in 1..Len(handled) :
    /\ IsResponse(handled[i].resp)
    /\ handled[i].resp.st = <<call.ST>>

\* C13: the handler is never invoked for a datagram that is not a search
\* response, that has no ST header, or whose ST value differs from the
\* requested ST within its first ST_HEADER_SIZE - 1 = 99 characters.
C13_OnlyRequestedPrefix ==
  \A i \in 1..Len(handled) :
    /\ IsResponse(handled[i].resp)
    /\ handled[i].resp.st # <<>>
    /\ Take(handled[i].resp.st[1], ST_HEADER_SIZE - 1) = call.ST

\* a response for another ST was read and dropped after a matching one was
\* handed over
C13_Witness ==
  /\ Polled
  /\ IsResponse(PolledResp)
  /\ PolledResp.st = <<UnknownType>>
  /\ ~trace.handed
  /\ Len(handled) = 1

\* C14 as stated: the handler is invoked for a search response only if it
\* has a non-empty DESC name.
C14_OnlyNamed ==
  \A i \in 1..Len(handled) : HasName(handled[i].resp)

\* C14: the handler is invoked for a search response only if it has a DESC
\* header; a response without DESC header is never delivered, and a response
\* with the requested ST and a DESC header is delivered whether or not the
\* DESC value has a :name: field or a non-empty name.
C14_OnlyWithDesc ==
  /\ \A i \in 1..Len(handled) : handled[i].resp.desc # <<>>
  /\ (Polled /\ IsResponse(PolledResp) /\ PolledResp.st = <<call.ST>>
        /\ PolledResp.desc # <<>>) => trace.handed

\* a response with the requested ST and without DESC header was read and
\* dropped, after one with an empty name was handed over
C14_Witness ==
  /\ Polled
  /\ IsResponse(PolledResp)
  /\ PolledResp.st = <<call.ST>>
  /\ PolledResp.desc = <<>>
  /\ ~trace.handed
  /\ Len(handled) = 1
  /\ handled[1].resp.desc = <<":name::devices:1:">>

\* C15: a call whose ST is not upnp:rootdevice and starts with neither uuid:
\* nor urn: returns SSDP_ERR_ST without sending, listening or invoking the
\* handler.
C15_InvalidTarget ==
  (~IsValidTarget(call.ST) /\ pc # "call")
    => /\ pc = "returned"
       /\ result = SSDP_ERR_ST
       /\ wire = <<>>
       /\ handled = <<>>
       /\ trace = NoTrace

\* the call for upnp:rootdevice-x has returned
C15_Witness ==
  /\ call.ST = "upnp:rootdevice-x"
  /\ pc = "returned"
  /\ result = SSDP_ERR_ST

\* C16: for a uuid: target the call stops listening as soon as one response
\* has been handed to the handler, without waiting any longer; for other
\* targets it listens until the deadline.
C16_UuidEarlyExit ==
  [][/\ (pc = "listen" /\ BeginsWith(call.ST, "uuid:") /\ handled # <<>>) => now' = now
     /\ (pc = "listen" /\ pc' = "returned" /\ ~BeginsWith(call.ST, "uuid:"))
          => now - timeStamp >= call.timeout]_vars

\* at most one pass of the loop, POLL_DELAY long, ends after the timeout
SilentSafe ==
  (trace.listened /\ trace.arrived = 0)
    => /\ handled = <<>>
       /\ result = SSDP_OK
       /\ now - trace.start < call.timeout + POLL_DELAY
       /\ pc = "returned" => now - trace.start >= call.timeout

\* C17: when the request was sent and no datagram ever arrives, the receive
\* loop ends once timeout milliseconds have elapsed since listening began:
\* the handler is never invoked, the result is SSDP_OK, the loop is never
\* found listening a whole poll interval past the deadline, it does not
\* return before the deadline, and the only step the client takes once the
\* deadline has passed is the return.
C17_SilentTimeout ==
  /\ []SilentSafe
  /\ [][(/\ pc = "listen" /\ trace.listened /\ trace.arrived = 0
         /\ now - trace.start >= call.timeout)
          => (pc' = "returned" \/ trace'.arrived > 0)]_vars

\* a call with the long timeout has returned without any arrival
C17_Witness ==
  /\ trace.listened
  /\ trace.arrived = 0
  /\ pc = "returned"
  /\ call.timeout = LONG_TIMEOUT
  /\ now - trace.start > call.timeout

\* C18 as stated: the deadline is reset to now + timeout when, and only
\* when, a valid response arrives: a search response whose ST matches the
\* request and that carries a DESC name.
C18_ResetOnValid ==
  /\ Polled =>
       /\ trace.reset <=> (/\ IsResponse(PolledResp)
                           /\ PolledResp.st = <<call.ST>>
                           /\ HasName(PolledResp))
       /\ trace.reset => timeStamp = now - POLL_DELAY
  /\ (pc = "listen" /\ trace.pkt = <<>>) => ~trace.reset

\* C18: the deadline is reset to now + timeout when, and only when, a search
\* response is read (a datagram that begins with HTTP/1.1), whether or not
\* its ST matches the request and whether or not it carries a DESC header; a
\* datagram that is not a search response leaves the deadline unchanged.
C18_ResetOnResponse ==
  /\ Polled =>
       /\ trace.reset <=> IsResponse(PolledResp)
       /\ trace.reset => timeStamp = now - POLL_DELAY
  /\ (pc = "listen" /\ trace.pkt = <<>>) => ~trace.reset

\* a response for another ST was read after the first pass and moved the
\* deadline
C18_Witness ==
  /\ Polled
  /\ PolledResp.st = <<UnknownType>>
  /\ trace.reset
  /\ ~trace.handed
  /\ timeStamp > trace.start

\* C19: the result is SSDP_ERR_UDP when beginning the multicast packet fails
\* and SSDP_ERR_SEND when endPacket fails after a successful begin; then the
\* receive loop is not entered and the handler is never invoked; SSDP_OK is
\* the result only of a call whose request was sent.
C19_ErrorKinds ==
  /\ trace.begun = 0 =>
       /\ result = SSDP_ERR_UDP /\ pc = "returned" /\ trace.ended = -1
       /\ ~trace.listened /\ handled = <<>> /\ wire = <<>>
  /\ (trace.begun = 1 /\ trace.ended = 0) =>
       /\ result = SSDP_ERR_SEND /\ pc = "returned"
       /\ ~trace.listened /\ handled = <<>> /\ wire = <<>>
  /\ (pc \in {"listen", "returned"} /\ result = SSDP_OK) =>
       /\ trace.begun = 1 /\ trace.ended = 1 /\ Len(wire) = 1
  /\ result = SSDP_ERR_UDP => trace.begun = 0
  /\ result = SSDP_ERR_SEND => trace.ended = 0

\* a call has returned SSDP_ERR_SEND after a successful begin
C19_Witness ==
  /\ pc = "returned"
  /\ result = SSDP_ERR_SEND
  /\ trace.begun = 1
  /\ trace.ended = 0

\* ------------------------------------------------------------------------
\* Properties of the header lookup
\* ------------------------------------------------------------------------

\* the lines of the packet that carry the header asked for: the name asked
\* for, then ':' or ' ', and a ':' in the line
HasColon(l) == \E k \in 1..Len(l.sep) : SubSeq(l.sep, k, k) = ":"
Matches == {i \in 1..Len(lines) : lines[i].name = query.header /\ HasColon(lines[i])}
LastMatch == CHOOSE i \in Matches : \A j \in Matches : j <= i
\* the text of a line from the first character of its value to its end
ValueToEnd(l) == IF l.value = "" THEN "" ELSE l.value \o l.trail

\* C20: when several lines of a packet match the requested header name,
\* headerValue returns the value of the last matching line (cut to len - 1
\* characters), not that of the first, also when that last value is empty.
C20_LastValueWins ==
  (answer # <<>> /\ query.fn = "headerValue" /\ Matches # {})
    => /\ answer[1].result
       /\ answer[1].buffer = Take(ValueToEnd(lines[LastMatch]), query.len - 1)

\* a lookup on a packet with two matching lines, the first with a value and
\* the last one empty, has answered the empty value
C20_Witness ==
  /\ answer # <<>>
  /\ Cardinality(Matches) >= 2
  /\ lines[LastMatch].value = ""
  /\ \E i \in Matches : lines[i].value # ""
  /\ answer[1].result
  /\ answer[1].buffer = ""

\* C21: the value headerValue returns is the text after the first ':' of
\* the matching line without its leading spaces and without its trailing
\* spaces, cut to len - 1 characters.
C21_TrimmedValue ==
  (answer # <<>> /\ query.fn = "headerValue" /\ Matches # {})
    => /\ answer[1].result
       /\ answer[1].buffer = Take(lines[LastMatch].value, query.len - 1)

\* the line begins with h and the byte after h is ':' or ' '
BeginsWithHeader(l, h) ==
  /\ Take(LineText(l), Len(h)) = h
  /\ CharAt(LineText(l), Len(h) + 1) \in {":", " "}

\* C22 as stated: a line matches header name H if and only if it begins
\* with H byte for byte and the byte right after H is ':' or a space.
C22_MatchIffBegins ==
  (answer # <<>> /\ query.fn = "headerValue")
    => (answer[1].result <=> \E i \in 1..Len(lines) : BeginsWithHeader(lines[i], query.header))

\* C22: a line matches header name H if and only if, once the spaces at its
\* start are skipped, it begins with H byte for byte, the byte right after H
\* is ':' or a space, and a ':' follows in the line; a lookup of ST is not
\* satisfied by the ST.LEELANAUSOFTWARE.COM line, by a line that contains ST
\* later (HOST), or by a name in another case (st).
C22_MatchIffName ==
  (answer # <<>> /\ query.fn = "headerValue")
    => (answer[1].result <=> Matches # {})

\* a lookup of ST on a packet with a HOST line and an ST.LEELANAUSOFTWARE.COM
\* line has found nothing
C22_Witness ==
  /\ answer # <<>>
  /\ query.header = ST_HEADER
  /\ \E i \in 1..Len(lines) : lines[i].name = "HOST"
  /\ \E i \in 1..Len(lines) : lines[i].name = ST_LSC_HEADER
  /\ ~answer[1].result

\* C30 as stated: a line that has one or more spaces before the header name
\* is not matched by headerValue, on the first line of the packet or on any
\* later line.
C30_OnlyAtLineStart ==
  (/\ answer # <<>> /\ query.fn = "headerValue"
   /\ \A i \in 1..Len(lines) : lines[i].name = query.header => lines[i].lead # "")
    => ~answer[1].result

\* C30: the spaces before a header name are skipped before the name is
\* compared, on the first line of the packet and on any later line: a line
\* with spaces before the name asked for is matched and, when it is the last
\* such line, gives the value.
C30_LeadingSpacesSkipped ==
  (answer # <<>> /\ query.fn = "headerValue")
    => \A i \in Matches :
         (lines[i].lead # "" /\ i = LastMatch)
           => /\ answer[1].result
              /\ answer[1].buffer = Take(ValueToEnd(lines[i]), query.len - 1)

\* the first line of the packet has spaces before the name asked for, no
\* other line carries the name, and its value was found
C30_Witness ==
  /\ answer # <<>>
  /\ Matches = {1}
  /\ lines[1].lead # ""
  /\ answer[1].result
  /\ answer[1].buffer = lines[1].value

\* the DESC line of the packet, and the name its value carries
DescIn == {i \in 1..Len(lines) : lines[i].name = DESC_LSC_HEADER}
DescName == (CHOOSE c \in DescCases : \E i \in DescIn : lines[i].value = c.value).dname
Named == answer # <<>> /\ query.fn = "displayName"

\* C23 as stated: displayName returns true with the text between :name: and
\* the next ':' of the DESC value, and false if the DESC header is absent,
\* the value has no :name: field, or no ':' follows the name.
C23_TrueIffNamed ==
  Named =>
    /\ answer[1].result <=> (DescIn # {} /\ DescName # <<>>)
    /\ answer[1].result => answer[1].buffer = DescName[1]

\* C23: displayName returns true exactly when the DESC header is present.
\* The buffer then holds the text between :name: and the next ':' of the
\* DESC value (its first len - 2 characters when the name has len
\* characters or more), and the empty string when the value has no :name:
\* field or no ':' after it.
C23_TrueIffDesc ==
  Named =>
    /\ answer[1].result <=> DescIn # {}
    /\ answer[1].buffer =
         IF DescIn = {} \/ DescName = <<>> THEN ""
         ELSE IF Len(DescName[1]) < query.len THEN DescName[1]
         ELSE Take(DescName[1], query.len - 2)

\* displayName was called on a response whose DESC value has no :name:
\* field: it has answered true with an empty buffer
C23_Witness ==
  /\ Named
  /\ DescIn # {}
  /\ \E i \in DescIn : lines[i].value = ":devices:1:services:1:"
  /\ answer[1].result
  /\ answer[1].buffer = ""

\* ------------------------------------------------------------------------
\* Responses read back
\* ------------------------------------------------------------------------

\* what headerValue and displayName answer when they find the text v
Found(v) == [result |-> TRUE, buffer |-> v]
\* the datagram parses as a search response with the LOCATION, the ST, the
\* USN that were formatted into it, and with the display name nm
ReadsBack(dg, nm) ==
  \E b \in {UPnPBuffer(dg.data)} :
    /\ isSearchResponse(b)
    /\ headerValue(b, "LOCATION", "", TXN_BUFFER_SIZE) = Found(dg.fmt.loc)
    /\ headerValue(b, ST_HEADER, "", TXN_BUFFER_SIZE) = Found(dg.fmt.st)
    /\ headerValue(b, USN_HEADER, "", TXN_BUFFER_SIZE)
         = Found("uuid:" \o dg.fmt.usn[1] \o "::" \o dg.fmt.usn[2])
    /\ displayName(b, TXN_BUFFER_SIZE) = Found(nm)
HasColonIn(str) == \E k \in 1..Len(str) : SubSeq(str, k, k) = ":"

\* C24 as stated: every response built by postDeviceResponse or
\* postServiceResponse parses as a search response and gives back the same
\* LOCATION, ST, USN and display name that were formatted into it.
C24_RoundTrip ==
  \A i \in 1..Len(sent) : ReadsBack(sent[i].dgram, sent[i].dgram.fmt.name)

\* C24: every response parses as a search response and gives back the same
\* LOCATION, ST and USN, and the same display name when the name contains no
\* ':'; of a display name that contains ':' it gives back the part before
\* the first ':'.
C24_RoundTripToColon ==
  \A i \in 1..Len(sent) :
    \E nm \in {sent[i].dgram.fmt.name} :
      ReadsBack(sent[i].dgram,
                IF HasColonIn(nm) THEN SubSeq(nm, 1, strstr(nm, 1, ":") - 1) ELSE nm)

\* an expanded search was answered by the root, a service and an embedded
\* device, and the name of the service was read back
C24_Witness ==
  /\ Len(sent) >= 3
  /\ \E i \in 1..Len(sent) :
       /\ sent[i].dgram.fn = "postServiceResponse"
       /\ displayName(UPnPBuffer(sent[i].dgram.data), NAME_SIZE) = Found("Service 0.1")
  /\ \E i \in 1..Len(sent) : sent[i].dgram.node.dev >= 1

\* ------------------------------------------------------------------------
\* Properties of a tick
\* ------------------------------------------------------------------------

\* a step of doSSDP (the only steps that leave net alone)
Tick == net' = net /\ UNCHANGED <<root, faults>>
\* what a tick does to the queue of a socket: it takes its first packet, if
\* there is one, and no other
TakesOne(queue, queueAfter, read) ==
  IF queue = <<>> THEN queueAfter = <<>> /\ read = <<>>
  ELSE queueAfter = Tail(queue) /\ read = <<Head(queue)>>
\* in sent, what answers the multicast packet stands before what answers
\* the unicast packet
MulticastFirst ==
  \A i \in 1..Len(sent) : \A j \in 1..Len(sent) :
    (sent[i].ch = "u" /\ sent[j].ch = "m") => j < i

\* C25: in one doSSDP tick the multicast socket is served before the unicast
\* socket, and exactly the first pending packet of each socket is read,
\* whatever the number of packets pending.
C25_OnePerSocket ==
  /\ []MulticastFirst
  /\ [][Tick => /\ TakesOne(mUdp, mUdp', last'.m)
                 /\ TakesOne(udp, udp', last'.u)]_vars

\* a tick has read one packet from each socket and answered both, and a
\* packet is still pending on the multicast socket
C25_Witness ==
  /\ last.m # <<>> /\ last.u # <<>>
  /\ mUdp # <<>>
  /\ \E i \in 1..Len(sent) : sent[i].ch = "m"
  /\ \E i \in 1..Len(sent) : sent[i].ch = "u"

\* the datagrams of the last tick, batch by batch
Batches == BatchOf("m") \o BatchOf("u")
\* the nodes that answer the root search read from ch
RootAnswer(ch) == IF WantsAll(ch) THEN ExpandedOrder(root, RootPtr) ELSE <<RootPtr>>
\* the same request from the same peer was read from both sockets
SameOnBoth == ReadOn("m") /\ ReadOn("u") /\ last.m = last.u

\* C26: the datagrams of a tick are the whole batch for the multicast
\* packet followed by the whole batch for the unicast packet, with nothing
\* for a packet that was not read in this tick; a batch is complete when the
\* tick ends, so before the next packet is read; the same request read
\* again, from the other socket or in the next tick, is answered by the
\* same sequence of datagrams.
C26_WholeBatches ==
  /\ [](/\ [i \in 1..Len(sent) |-> sent[i].dgram] = Batches
        /\ \A ch \in Channels :
             /\ ~ReadOn(ch) => BatchOf(ch) = <<>>
             /\ (GatedSearch(ch) /\ STOf(ch) = "upnp:rootdevice")
                  => NodesOf(BatchOf(ch)) = RootAnswer(ch)
        /\ SameOnBoth => BatchOf("m") = BatchOf("u"))
  /\ [][\A ch \in Channels :
          (Tick /\ ReadOn(ch) /\ last'[ch] = last[ch]) => BatchOf(ch)' = BatchOf(ch)]_vars

\* the expanded root search of the same peer was read from both sockets
\* in one tick and answered twice, node by node
C26_Witness ==
  /\ SameOnBoth
  /\ WantsAll("m")
  /\ Len(BatchOf("m")) = 4
  /\ Len(sent) = 8

\* the packet the last tick read from ch
PacketOn(ch) == last[ch][1]

\* C27: every datagram of a batch is addressed to the source address and
\* the source port of the packet it answers and leaves through the unicast
\* socket, for a packet read from the multicast socket as for one read from
\* the unicast socket.
C27_ToTheRequester ==
  \A ch \in Channels :
    \A i \in 1..Len(BatchOf(ch)) :
      /\ ReadOn(ch)
      /\ BatchOf(ch)[i].remoteAddr = PacketOn(ch).remoteIP
      /\ BatchOf(ch)[i].port = PacketOn(ch).remotePort
      /\ BatchOf(ch)[i].sock = "_udp"

\* one tick answered a station peer on the multicast socket and a soft-AP
\* peer on the unicast socket
C27_Witness ==
  /\ ReadOn("m") /\ ReadOn("u")
  /\ PacketOn("m").remoteIP = PeerLAN.ip /\ PacketOn("u").remoteIP = PeerAP.ip
  /\ BatchOf("m") # <<>> /\ BatchOf("u") # <<>>
  /\ BatchOf("u")[Len(BatchOf("u"))].port = PeerAP.port

\* beginPacket or endPacket failed for the k-th datagram of the tick
Failed(k) == sent[k].ok.begin # 1 \/ sent[k].ok.end # 1
\* the number of datagrams the packet read from ch asks for
Asked(ch) ==
  IF GatedSearch(ch) /\ STOf(ch) = "upnp:rootdevice" THEN Len(RootAnswer(ch)) ELSE 0

\* C28: a send that fails does not end the batch: whatever beginPacket and
\* endPacket answer, a tick attempts every datagram its packets ask for, in
\* the same order, both calls are made for each of them, and the tick after
\* one with a failed send reads its packets as any other.
C28_FailuresDoNotAbort ==
  /\ [](/\ Len(sent) = Asked("m") + Asked("u")
        /\ \A ch \in Channels :
             Asked(ch) > 0 => NodesOf(BatchOf(ch)) = RootAnswer(ch)
        /\ \A k \in 1..Len(sent) :
             sent[k].ok.begin \in {0, 1} /\ sent[k].ok.end \in {0, 1})
  /\ [][(Tick /\ \E k \in 1..Len(sent) : Failed(k))
          => TakesOne(mUdp, mUdp', last'.m) /\ TakesOne(udp, udp', last'.u)]_vars

\* the first datagram of a tick could not be sent and the other three of
\* its batch, and the batch of the other socket, were attempted after it
C28_Witness ==
  /\ Len(sent) >= 5
  /\ Failed(1)
  /\ sent[1].ok.begin = 0
  /\ Len(BatchOf("m")) = 4
  /\ BatchOf("u") # <<>>

\* ------------------------------------------------------------------------
\* The request a search transmits
\* ------------------------------------------------------------------------

\* the value of a header of the transmitted request, as the server reads it
SentValue(header, len) == headerValue(UPnPBuffer(wire[1]), header, "", len)

\* C29: ssdpAll matters for upnp:rootdevice searches only.  The transmitted
\* root search has the gate value ssdp:all exactly when ssdpAll is true and
\* an empty gate value otherwise; the transmitted uuid: or urn: search is
\* the same text, with the gate value ssdp:all, whether ssdpAll is true or
\* false.
C29_SsdpAllOnlyForRoot ==
  wire # <<>> =>
    /\ call.ST = "upnp:rootdevice" =>
         /\ SentValue(ST_HEADER, ST_HEADER_SIZE) = Found("upnp:rootdevice")
         /\ SentValue(ST_LSC_HEADER, ST_LSC_HEADER_SIZE)
              = Found(IF call.ssdpAll THEN "ssdp:all" ELSE "")
    /\ call.ST # "upnp:rootdevice" =>
         /\ BeginsWith(call.ST, "uuid:") \/ BeginsWith(call.ST, "urn:")
         /\ wire[1] = Take("M-SEARCH * HTTP/1.1" \o CRLF
                           \o "HOST: 239.255.255.250:1900" \o CRLF
                           \o "MAN: ssdp:discover" \o CRLF
                           \o "ST: " \o call.ST \o CRLF
                           \o "ST.LEELANAUSOFTWARE.COM: ssdp:all" \o CRLF
                           \o "USER-AGENT: ESP8266 UPnP/1.1 LSC-SSDP/1.0" \o CRLF \o CRLF,
                           SSDP_BUFFER_SIZE - 1)

\* a type search was transmitted by a call with ssdpAll true
C29_Witness ==
  /\ wire # <<>>
  /\ call.ssdpAll
  /\ BeginsWith(call.ST, "urn:")
  /\ SentValue(ST_LSC_HEADER, ST_LSC_HEADER_SIZE) = Found("ssdp:all")

\* ------------------------------------------------------------------------
\* The gate value and the expansion of a search
\* ------------------------------------------------------------------------

\* the device a root search or a uuid search read from ch is for, if any
Targets(ch) ==
  {d \in DeviceNodes(root) :
     \/ STOf(ch) = "upnp:rootdevice" /\ d = RootPtr
     \/ BeginsWith(STOf(ch), "uuid:") /\ UuidOfDevice(root, d) = UuidOfST(STOf(ch))}

\* C31: a root search or a uuid search is answered by the device, its
\* services and (for the root) its embedded devices and their services when
\* the gate value begins with the 8 characters ssdp:all, and by the device
\* alone for every other gate value, the empty one included.
C31_ExpandIffSsdpAll ==
  \A ch \in Channels :
    GatedSearch(ch) =>
      \A d \in Targets(ch) :
        NodesOf(BatchOf(ch)) = IF BeginsWith(GateOf(ch), "ssdp:all")
                               THEN ExpandedOrder(root, d)
                               ELSE <<d>>

\* a root with services and devices expanded a uuid search whose gate value
\* goes on after ssdp:all
C31_Witness ==
  \E ch \in Channels :
    /\ GatedSearch(ch) /\ Targets(ch) = {RootPtr}
    /\ BeginsWith(STOf(ch), "uuid:")
    /\ Len(root.services) > 0 /\ Len(root.devices) > 0
    /\ GateOf(ch) = "ssdp:all-more"
    /\ Len(BatchOf(ch)) > 2

\* ------------------------------------------------------------------------
\* Properties of getNextLine
\* ------------------------------------------------------------------------

\* getNextLine has returned
GotLine == answer # <<>> /\ query.fn = "getNextLine"
\* the line the cursor was on, without EOL; the empty line is ""
LineAtCursor == IF query.line <= Len(lines) THEN LineBody(lines[query.line]) ELSE ""
\* the cursor was on a line, not at the end of the text
OnALine == query.line <= Len(lines) + 1

\* C32 as stated: getNextLine returns null when no EOL follows the cursor;
\* otherwise buffer receives the line with its EOL, cut to bufferLen - 1
\* characters, and the returned cursor stands after the EOL and the spaces
\* that follow it.
C32_LineWithEOL ==
  GotLine =>
    IF OnALine
    THEN /\ answer[1].buffer = Take(LineAtCursor \o CRLF, query.len - 1)
         /\ answer[1].result = CursorAt(lines, query.line + 1)
    ELSE answer[1].result = 0

\* C32 as the code has it: buffer receives the line without its EOL, cut to
\* bufferLen - 1 characters; the rest as stated.
C32_LineWithoutEOL ==
  GotLine =>
    IF OnALine
    THEN /\ answer[1].buffer = Take(LineAtCursor, query.len - 1)
         /\ answer[1].result = CursorAt(lines, query.line + 1)
    ELSE answer[1].result = 0

\* the first line was read into a buffer it fits in, and the cursor came
\* back on the name of a second line written after spaces
C32_Witness ==
  /\ GotLine
  /\ query.line = 1 /\ Len(lines) = 2
  /\ lines[2].lead # ""
  /\ answer[1].buffer = LineBody(lines[1])
  /\ answer[1].result = CursorAt(lines, 2)

\* ------------------------------------------------------------------------
\* Blanks in a uuid search
\* ------------------------------------------------------------------------

\* the ST value of the uuid search read from ch has blanks after uuid:
SpacedSearch(ch) ==
  /\ GatedSearch(ch)
  /\ BeginsWith(STOf(ch), "uuid: ")

\* the test of searchRequest on the ST of a response, for a call with ST st
PassesFilter(data, st) ==
  \E b \in {UPnPBuffer(data)} :
    headerValue(b, ST_HEADER, "", ST_HEADER_SIZE) = Found(st)

\* C33: a uuid search with blanks between uuid: and the uuid is answered by
\* the device that has the uuid that follows the blanks, and every datagram
\* of the answer carries the ST value of the request as it was written,
\* blanks included, so that it passes the ST test of the searchRequest call
\* that sent this ST.
C33_BlanksTolerated ==
  \A ch \in Channels : \A d \in DeviceNodes(root) :
    (SpacedSearch(ch) /\ UuidOfDevice(root, d) = UuidOfST(STOf(ch)))
      => /\ BatchOf(ch) # <<>>
         /\ BatchOf(ch)[1].node = d
         /\ \A i \in 1..Len(BatchOf(ch)) :
              /\ BatchOf(ch)[i].fmt.st = STOf(ch)
              /\ PassesFilter(BatchOf(ch)[i].data, STOf(ch))

\* an embedded device with services answered an expanded search for its
\* uuid written after three blanks
C33_Witness ==
  \E ch \in Channels :
    /\ SpacedSearch(ch)
    /\ STOf(ch) = "uuid:   " \o DevUUID(1)
    /\ GateOf(ch) = "ssdp:all"
    /\ Len(BatchOf(ch)) > 1
    /\ BatchOf(ch)[1].node = DevPtr(1)

\* ------------------------------------------------------------------------
\* The socket of a search
\* ------------------------------------------------------------------------

\* C34: a call whose udp.begin failed returns the error SSDP_ERR_UDP; at
\* the least it never returns SSDP_OK.
C34_BindFailureSurfaced ==
  (pc = "returned" /\ trace.bound = 0) => result # SSDP_OK

\* ------------------------------------------------------------------------
\* The caller's buffer
\* ------------------------------------------------------------------------

\* headerValue or displayName has returned
Copied == answer # <<>> /\ query.fn \in {"headerValue", "displayName"}

\* C35: headerValue and displayName store only into buffer[0 .. len-1], for
\* every packet and every len >= 1, and when they return true the string in
\* buffer ends inside buffer.
C35_WritesInBuffer ==
  Copied =>
    /\ answer[2] \subseteq 0..(query.len - 1)
    /\ answer[1].result => Len(answer[1].buffer) <= query.len - 1

\* the same for headerValue alone
HeaderWritesInBuffer ==
  (Copied /\ query.fn = "headerValue") =>
    /\ answer[2] \subseteq 0..(query.len - 1)
    /\ answer[1].result => Len(answer[1].buffer) <= query.len - 1

\* ------------------------------------------------------------------------
\* The terminator of a datagram that has been read
\* ------------------------------------------------------------------------

\* char txnBuffer[TXN_BUFFER_SIZE + 1] of readChannel and
\* char txnBuffer[SSDP_BUFFER_SIZE] of searchRequest
ServerBufferLen == TXN_BUFFER_SIZE + 1
ClientBufferLen == SSDP_BUFFER_SIZE

\* readChannel: txnBuffer[available] = 0 is a store inside txnBuffer
ServerZeroInside ==
  \A ch \in Channels :
    ReadOn(ch) => available(PacketOn(ch).data, TXN_BUFFER_SIZE) \in 0..(ServerBufferLen - 1)

\* C36: the zero stored at index available after a read lies inside the
\* receive buffer, in readChannel and in searchRequest, whatever the size of
\* the datagram.
C36_ZeroInsideBuffer ==
  /\ ServerZeroInside
  /\ trace.pkt # <<>> =>
       available(trace.pkt[1].data, SSDP_BUFFER_SIZE) \in 0..(ClientBufferLen - 1)

\* ------------------------------------------------------------------------
\* The handler an answered request leaves installed
\* ------------------------------------------------------------------------

\* a handler other than the default []{} is installed
Installed == postHandler.fn # "nop"

\* C37: a batch is sent only by the doChannel call that read its request,
\* and once: a call that reads no packet, or a packet that asks for no
\* response, sends nothing, also when the handler of an earlier request is
\* still installed; the call that reads a request sends its datagrams once.
C37_OncePerRequest ==
  /\ [](\A ch \in Channels :
          /\ (~ReadOn(ch) \/ ~GatedSearch(ch)) => BatchOf(ch) = <<>>
          /\ Len(BatchOf(ch)) = Asked(ch))
  /\ [][(Tick /\ Installed /\ mUdp = <<>> /\ udp = <<>>) => sent' = <<>>]_vars
  /\ [][(Tick /\ Installed /\ udp = <<>> /\ mUdp # <<>> /\ Head(mUdp).req.gate = <<>>)
          => sent' = <<>>]_vars

\* a tick has found both sockets empty and sent nothing while the handler
\* of the request answered before is installed
C37_Witness ==
  /\ Installed
  /\ postHandler.fn = "postAllResponse"
  /\ last = [m |-> <<>>, u |-> <<>>]
  /\ sent = <<>>

\* ------------------------------------------------------------------------
\* C38
\* ------------------------------------------------------------------------
\* a line after the empty line carries the header asked for
BodyMatches == {i \in 1..Len(body) : body[i].name = query.header /\ HasColon(body[i])}

\* C38: headerValue considers only the lines before the first empty line of
\* the packet: whatever stands after the empty line, the lookup returns true
\* exactly when a line before the empty line matches, with the value of the
\* last such line, and returns false with buffer left as it was otherwise.
C38_OnlyBeforeEmptyLine ==
  (answer # <<>> /\ query.fn = "headerValue" /\ body # <<>>)
    => /\ answer[1].result <=> Matches # {}
       /\ Matches # {}
            => answer[1].buffer = Take(ValueToEnd(lines[LastMatch]), query.len - 1)
       /\ Matches = {} => answer[1].buffer = query.buffer

\* readChannel on a search whose gate header or ST header stands after the
\* empty line: nothing is sent
BodyHeadersIgnored ==
  \A ch \in Channels :
    (ReadOn(ch) /\ PacketOn(ch) \in BodyPackets) => BatchOf(ch) = <<>>
BodyPacketRead == \E ch \in Channels : ReadOn(ch) /\ PacketOn(ch) \in BodyPackets

\* a lookup of ST has found nothing in a packet whose only ST line stands
\* after the empty line
C38_Witness ==
  /\ answer # <<>>
  /\ query.fn = "headerValue"
  /\ query.header = ST_HEADER
  /\ lines # <<>>
  /\ Matches = {}
  /\ BodyMatches # {}
  /\ body[1].value = SSDP_ALL
  /\ ~answer[1].result

\* ------------------------------------------------------------------------
\* C39
\* ------------------------------------------------------------------------
\* the text has a line that begins with name and ':'
Carries(data, name) == strstr(data, 1, CRLF \o name \o ":") # 0

\* a response as the templates write it
WellFormedResponse(data) ==
  /\ data # ""
  /\ BeginsWith(data, "HTTP/1.1 200 OK")
  /\ \A h \in {"LOCATION", ST_HEADER, USN_HEADER, DESC_LSC_HEADER} : Carries(data, h)

\* C39: every datagram the server transmits is a non-empty response that
\* begins with HTTP/1.1 200 OK and carries LOCATION, ST, USN and DESC
\* headers, for every node the post functions are called with, a service
\* without parent included.
C39_WellFormedDatagrams ==
  \A i \in 1..Len(sent) : WellFormedResponse(sent[i].dgram.data)

\* a datagram was sent for a node without parent
OrphanAnswered ==
  \E i \in 1..Len(sent) : sent[i].dgram.node \in root.orphans

\* ------------------------------------------------------------------------
\* C40
\* ------------------------------------------------------------------------
\* C40 as stated: after the last arrival the loop ends within timeout; the
\* loop is not found listening a whole poll interval past that.
C40_EndsAfterLastArrival ==
  (trace.listened /\ trace.arrived > 0)
    => now - trace.lastArrival < call.timeout + POLL_DELAY

\* the loop never runs a pass at or past the deadline timeStamp + timeout,
\* it returns at or past it, and the deadline is never later than
\* timeout after the start for each datagram that has arrived and once more
DeadlineSafe ==
  trace.listened
    => /\ now - timeStamp < call.timeout + POLL_DELAY
       /\ pc = "returned" => now - timeStamp >= call.timeout
       /\ timeStamp - trace.start <= trace.arrived * call.timeout
       /\ now - trace.start < (trace.arrived + 1) * call.timeout + POLL_DELAY

\* C40: searchRequest terminates when finitely many datagrams arrive: the
\* pending datagrams are read one per pass of the loop, a poll interval
\* apart; each search response read moves the deadline to its time of
\* reading plus timeout, which is less than timeout later than the deadline
\* before; a datagram that arrives at or past the deadline is not read; the
\* loop ends at the first pass at or past the deadline, so within timeout
\* (and less than a poll interval more) of the last response read, and not
\* within timeout of the last arrival when datagrams were still pending.
C40_EndsAfterLastRead ==
  /\ []DeadlineSafe
  /\ [][(pc = "listen" /\ now - timeStamp >= call.timeout)
          => (pc' = "returned" \/ (now' = now /\ timeStamp' = timeStamp))]_vars
  /\ [][(pc = "listen" /\ timeStamp' # timeStamp)
          => (timeStamp' = now /\ timeStamp' - timeStamp < call.timeout)]_vars
  /\ [][(pc = "listen" /\ inbox # <<>> /\ now' # now) => inbox' = Tail(inbox)]_vars

\* a call has returned after two responses that arrived together were read
\* one pass apart, more than timeout and a poll interval after they arrived
C40_Witness ==
  /\ pc = "returned"
  /\ trace.arrived = 2
  /\ timeStamp = trace.lastArrival + POLL_DELAY
  /\ now - timeStamp >= call.timeout
  /\ now - trace.lastArrival >= call.timeout + POLL_DELAY

====
